---- MODULE Spec2Model ----
(***************************************************************************)
(* State-machine model of SSLNetVConnection (iocore/net/                   *)
(* SSLNetVConnection.cc): one TLS virtual connection, its handshake        *)
(* coordinator with pre-accept and SNI hooks, the blind-tunnel promotion   *)
(* with replay of the buffered handshake bytes, the post-handshake read    *)
(* path and teardown.                                                      *)
(*                                                                         *)
(* A handler of the source is an operator from a world record w (the       *)
(* connection, the net handler, the socket, the plugins and the log of    *)
(* what the running call does, in order) to the SET of worlds the         *)
(* handler can leave behind: what the engine, the socket, the plugins and  *)
(* the try-locks answer is chosen where the code asks them.                *)
(***************************************************************************)
EXTENDS Integers, Sequences, FiniteSets, TLC

VARIABLES vc, nh, sock, plug, cfg, hist, mgmt

vars == <<vc, nh, sock, plug, cfg, hist, mgmt>>

(* ------------------------------ bounds --------------------------------- *)
\* bytes the peer puts on the wire before the handshake ends
MaxWire == 2
\* longest pre-accept hook chain registered with ssl_hooks
MaxHooks == 2
\* longest SNI hook chain registered with ssl_hooks
MaxSniHooks == 2
\* most hooks registered with ssl_hooks in all, pre-accept and SNI
MaxRegistered == 2
\* largest nbytes of the read VIO set up by do_io_read
MaxNbytes == 2
\* write-available bytes of one block of the read VIO buffer
MaxBlockAvail == 2
\* capacity of the block of the handshake buffer
HsBlockSize == 2
\* largest towrite handed to load_buffer_and_write
MaxTowrite == 2
\* the write path stops being driven once this many bytes were sent
MaxSent == 2
\* latest reading of the clock, in units of the idle threshold
MaxClock == 2
\* MAX_CONN_TRIES of the management API client, scaled down
MAX_CONN_TRIES == 3
\* calls of Restart the management API client makes
MaxRestarts == 2
\* SSL_DEF_TLS_RECORD_SIZE, SSL_MAX_TLS_RECORD_SIZE, the byte threshold and
\* the idle threshold of dynamic record sizing, scaled down
SSL_DEF_TLS_RECORD_SIZE == 1
SSL_MAX_TLS_RECORD_SIZE == 2
SSL_DEF_TLS_RECORD_BYTE_THRESHOLD == 2
SSL_DEF_TLS_RECORD_MSEC_THRESHOLD == 1

(* ----------------------- constants of the source ----------------------- *)
SSL_READ_ERROR_NONE == "SSL_READ_ERROR_NONE"
SSL_READ_ERROR == "SSL_READ_ERROR"
SSL_READ_READY == "SSL_READ_READY"
SSL_READ_COMPLETE == "SSL_READ_COMPLETE"
SSL_READ_WOULD_BLOCK == "SSL_READ_WOULD_BLOCK"
SSL_READ_EOS == "SSL_READ_EOS"
SSL_HANDSHAKE_WANT_READ == "SSL_HANDSHAKE_WANT_READ"
SSL_HANDSHAKE_WANT_WRITE == "SSL_HANDSHAKE_WANT_WRITE"
SSL_HANDSHAKE_WANT_ACCEPT == "SSL_HANDSHAKE_WANT_ACCEPT"
SSL_HANDSHAKE_WANT_CONNECT == "SSL_HANDSHAKE_WANT_CONNECT"
SSL_WRITE_WOULD_BLOCK == "SSL_WRITE_WOULD_BLOCK"
SSL_WAIT_FOR_HOOK == "SSL_WAIT_FOR_HOOK"

EVENT_DONE == "EVENT_DONE"
EVENT_CONT == "EVENT_CONT"
EVENT_ERROR == "EVENT_ERROR"

VC_EVENT_READ_READY == "VC_EVENT_READ_READY"
VC_EVENT_READ_COMPLETE == "VC_EVENT_READ_COMPLETE"
VC_EVENT_EOS == "VC_EVENT_EOS"
VC_EVENT_ERROR == "VC_EVENT_ERROR"

SSL_HOOKS_INIT == "SSL_HOOKS_INIT"
SSL_HOOKS_INVOKE == "SSL_HOOKS_INVOKE"
SSL_HOOKS_ACTIVE == "SSL_HOOKS_ACTIVE"
SSL_HOOKS_DONE == "SSL_HOOKS_DONE"

SNI_HOOKS_INIT == "SNI_HOOKS_INIT"
SNI_HOOKS_CONTINUE == "SNI_HOOKS_CONTINUE"
SNI_HOOKS_DONE == "SNI_HOOKS_DONE"

TS_SSL_HOOK_OP_DEFAULT == "TS_SSL_HOOK_OP_DEFAULT"
TS_SSL_HOOK_OP_TUNNEL == "TS_SSL_HOOK_OP_TUNNEL"
TS_SSL_HOOK_OP_TERMINATE == "TS_SSL_HOOK_OP_TERMINATE"

TRANSPORT_SSL == "TRANSPORT_SSL"
TRANSPORT_BLIND_TUNNEL == "TRANSPORT_BLIND_TUNNEL"

SSL_ERROR_NONE == "SSL_ERROR_NONE"
SSL_ERROR_SSL == "SSL_ERROR_SSL"
SSL_ERROR_WANT_READ == "SSL_ERROR_WANT_READ"
SSL_ERROR_WANT_WRITE == "SSL_ERROR_WANT_WRITE"
SSL_ERROR_WANT_X509_LOOKUP == "SSL_ERROR_WANT_X509_LOOKUP"
SSL_ERROR_SYSCALL == "SSL_ERROR_SYSCALL"
SSL_ERROR_ZERO_RETURN == "SSL_ERROR_ZERO_RETURN"
SSL_ERROR_WANT_CONNECT == "SSL_ERROR_WANT_CONNECT"
SSL_ERROR_WANT_ACCEPT == "SSL_ERROR_WANT_ACCEPT"
SSL_ERROR_WANT_SNI_RESOLVE == "SSL_ERROR_WANT_SNI_RESOLVE"

\* what SSLAccept and SSLConnect can answer
HandshakeErrors ==
  {SSL_ERROR_NONE, SSL_ERROR_SSL, SSL_ERROR_WANT_READ, SSL_ERROR_WANT_WRITE,
   SSL_ERROR_WANT_X509_LOOKUP, SSL_ERROR_SYSCALL, SSL_ERROR_ZERO_RETURN,
   SSL_ERROR_WANT_CONNECT, SSL_ERROR_WANT_ACCEPT, SSL_ERROR_WANT_SNI_RESOLVE}

\* errno values as read_raw_data returns them, negated
EAGAIN == 11
ECONNRESET == 104

(* ------------------------------ helpers -------------------------------- *)
Min(a, b) == IF a < b THEN a ELSE b

\* the bytes the peer sends are numbered, so that order and identity show
Wire == [i \in 1..MaxWire |-> i]

\* a byte the engine decrypted (plaintext, distinct from every wire byte)
AppByte == 0

RECURSIVE Repeat(_, _)
Repeat(x, n) == IF n <= 0 THEN <<>> ELSE <<x>> \o Repeat(x, n - 1)

RECURSIVE SumSeq(_)
SumSeq(s) == IF s = <<>> THEN 0 ELSE Head(s) + SumSeq(Tail(s))

Count(s, x) == Cardinality({i \in DOMAIN s : s[i] = x})

\* position of the first occurrence of x in s, 0 when there is none
First(s, x) ==
  IF \E i \in DOMAIN s : s[i] = x
  THEN CHOOSE i \in DOMAIN s : s[i] = x /\ \A j \in 1..(i - 1) : s[j] # x
  ELSE 0

\* position of the last occurrence of x in s, 0 when there is none
Last(s, x) ==
  IF \E i \in DOMAIN s : s[i] = x
  THEN CHOOSE i \in DOMAIN s : s[i] = x /\ \A j \in (i + 1)..Len(s) : s[j] # x
  ELSE 0

\* the worlds F leaves behind, started from each world of S
Bind(S, F(_)) == UNION {F(w) : w \in S}

\* the call records what it does, in order
Log(w, e) == [w EXCEPT !.log = Append(@, e)]

Ret(w, r) == [w EXCEPT !.ret = r]

\* does the call of world w record e
Has(w, e) == \E i \in DOMAIN w.log : w.log[i] = e

\* the entries of s that are in S, in order
Only(s, S) == SelectSeq(s, LAMBDA e : e \in S)

(* faulty variants: each property below is also run with one definition of  *)
(* the model replaced by one of these, and has to fail then                 *)
Always(w) == TRUE

Never(w) == FALSE

ReplayFromReader(w) ==
  SubSeq(w.vc.handShakeBuffer, w.vc.handShakeReader + 1, Len(w.vc.handShakeBuffer))


NULL == -1

(* ------------------- the state after construction ---------------------- *)
\* SSLNetVConnection::SSLNetVConnection(), then the accept or connect that
\* hands the connection to its net handler and the do_io_read of upstream
NewVC(client, transparent, nbytes, blocks, registered) ==
  [ allocated |-> TRUE,
    ssl |-> FALSE,
    rbio |-> [kind |-> "none", pos |-> 0, lim |-> 0],
    sslLastWriteTime |-> 0,
    sslTotalBytesSent |-> 0,
    hookOpRequested |-> TS_SSL_HOOK_OP_DEFAULT,
    sslHandShakeComplete |-> FALSE,
    sslClientConnection |-> client,
    sslClientRenegotiationAbort |-> FALSE,
    handShakeBuffer |-> <<>>,
    handShakeHolder |-> NULL,
    handShakeReader |-> NULL,
    sslPreAcceptHookState |-> SSL_HOOKS_INIT,
    sslSNIHookState |-> SNI_HOOKS_INIT,
    curHook |-> 0,
    npnSet |-> registered,
    npnEndpoint |-> "",
    attributes |-> TRANSPORT_SSL,
    is_transparent |-> transparent,
    read |-> [enabled |-> TRUE, triggered |-> TRUE,
              vio |-> [nbytes |-> nbytes, ndone |-> 0, buf |-> <<>>, blocks |-> blocks]],
    write |-> [enabled |-> TRUE, triggered |-> FALSE] ]

\* what do_io_read asks for: nbytes, and the write-available space of the
\* blocks of the buffer to fill. A demand below MaxNbytes comes with one
\* block of MaxBlockAvail bytes, the demand of MaxNbytes with two blocks of
\* one byte.
Demands ==
  {[nbytes |-> n, blocks |-> IF n < MaxNbytes THEN <<MaxBlockAvail>> ELSE <<1, 1>>] :
     n \in 0..MaxNbytes}

\* <<the cert store maps the destination to a tunnel, the port is transparent>>
Escapes == {<<FALSE, FALSE>>, <<TRUE, TRUE>>, <<TRUE, FALSE>>}

\* SSLConfigParams::ssl_maxrecord: 0 is no cap, -1 is dynamic record sizing
MaxRecordSettings == {0}

Init ==
  /\ \E client \in BOOLEAN, e \in Escapes, d \in Demands, registered \in BOOLEAN,
        nPre \in 0..MaxHooks, nSni \in 0..MaxSniHooks, debug \in BOOLEAN,
        maxrecord \in MaxRecordSettings :
       /\ client => (e = <<FALSE, FALSE>> /\ ~registered /\ nPre = 0 /\ nSni = 0)
       /\ (registered \/ e = <<TRUE, FALSE>>) => (nPre = 0 /\ nSni = 0)
       /\ ~client => ~debug
       /\ nPre + nSni <= MaxRegistered
       /\ vc = NewVC(client, e[2], d.nbytes, d.blocks, registered)
       /\ cfg = [nPreAccept |-> nPre, nSni |-> nSni, ccTunnel |-> e[1], debug |-> debug,
                 ssl_maxrecord |-> maxrecord,
                 hsBlocks |-> <<HsBlockSize>>]
  /\ nh = [read_ready_list |-> TRUE, write_ready_list |-> FALSE]
  /\ sock = [pos |-> 0]
  /\ plug = [disp |-> <<>>, pending |-> {}, running |-> {}, sniOwed |-> FALSE, ran |-> <<>>]
  /\ hist = [done |-> 0]
  /\ mgmt = [calls |-> <<>>]

\* the world a handler starts in: the state, and the locals of the call
World ==
  [ vc |-> vc, nh |-> nh, sock |-> sock, plug |-> plug, cfg |-> cfg,
    log |-> <<>>, locked |-> FALSE, ret |-> "none", rc |-> TRUE, r |-> 0,
    ans |-> [err |-> SSL_ERROR_NONE, nread |-> 0], bytes_read |-> 0,
    event |-> SSL_READ_ERROR_NONE, sslErr |-> SSL_ERROR_NONE, switched |-> FALSE,
    copied |-> <<>>, replayB |-> <<>>, replayP |-> 0,
    wattempted |-> 0, total_written |-> 0, needs |-> {}, records |-> <<>>,
    taken |-> <<>>, l |-> 0, err |-> SSL_ERROR_NONE,
    sel |-> [alpn |-> "", npn |-> ""], proto |-> "", walk |-> <<>>,
    targetLocked |-> FALSE, ranLocked |-> <<>>, binds |-> <<>>,
    eaten |-> 0 ]

\* what a world leaves in the state once its handler has returned
Left(S) ==
  {[vc |-> w.vc, nh |-> w.nh, sock |-> w.sock, plug |-> w.plug, cfg |-> w.cfg] : w \in S}

\* the handler returned: its world becomes the state; hist.done counts the
\* changes of sslHandShakeComplete from false to true
Commit(w) ==
  /\ vc' = w.vc
  /\ nh' = w.nh
  /\ sock' = w.sock
  /\ plug' = w.plug
  /\ cfg' = w.cfg
  /\ hist' = [done |-> IF ~vc.sslHandShakeComplete /\ w.vc.sslHandShakeComplete
                       THEN Min(hist.done + 1, 2) ELSE hist.done]
  /\ mgmt' = mgmt

(* --------------------- net handler and upstream ------------------------ *)
\* an event reaches the continuation of the read VIO
Signal(w, event) == Log(w, event)

readSignalDone(w, event) == Signal(w, event)

readSignalError(w) == Signal(w, VC_EVENT_ERROR)

\* the continuation may close the vc in the callback: EVENT_CONT or not
readSignalAndUpdate(w, event) ==
  {[Signal(w, event) EXCEPT !.rc = cont] : cont \in BOOLEAN}

readReschedule(w) == Log(w, "readReschedule")

writeReschedule(w) == Log(w, "writeReschedule")

read_disable(w) == Log([w EXCEPT !.nh.read_ready_list = FALSE], "read_disable")

(* ------------------------- handshake buffers --------------------------- *)
\* the buffer, its consuming reader and a clone of the reader that is never
\* consumed and so keeps every byte read since the buffer was made
initialize_handshake_buffers(w) ==
  [w EXCEPT !.vc.handShakeBuffer = <<>>, !.vc.handShakeReader = 0, !.vc.handShakeHolder = 0]

free_handshake_buffers(w) ==
  Log([w EXCEPT !.vc.handShakeBuffer = <<>>, !.vc.handShakeReader = NULL,
                !.vc.handShakeHolder = NULL], "free_handshake_buffers")

\* handShakeReader->read_avail()
ReaderAvail(w) == Len(w.vc.handShakeBuffer) - w.vc.handShakeReader

\* the bytes a reader at offset off still sees
ReaderBytes(w, off) == SubSeq(w.vc.handShakeBuffer, off + 1, Len(w.vc.handShakeBuffer))

\* BIO_get_mem_data(SSL_get_rbio(ssl)): bytes the engine has not read yet
BioPending(w) == IF w.vc.rbio.kind = "mem" THEN w.vc.rbio.lim - w.vc.rbio.pos ELSE 0

\* the sizes of the blocks of handShakeBuffer, added up: where each block ends
RECURSIVE BlockEnds(_)
BlockEnds(blocks) ==
  IF blocks = <<>> THEN <<>>
  ELSE LET front == BlockEnds(SubSeq(blocks, 1, Len(blocks) - 1))
       IN Append(front, (IF front = <<>> THEN 0 ELSE front[Len(front)]) + blocks[Len(blocks)])

\* handShakeReader->end(): the end of the data in the block the reader
\* stands in, the reader having moved past the blocks it has used up
ReaderEnd(w) ==
  LET ends == BlockEnds(w.cfg.hsBlocks)
      later == {j \in DOMAIN ends : ends[j] > w.vc.handShakeReader}
  IN IF later = {} THEN Len(w.vc.handShakeBuffer)
     ELSE Min(Len(w.vc.handShakeBuffer),
              ends[CHOOSE j \in later : \A i \in later : j <= i])

\* BIO_new_mem_buf(handShakeReader->start(), end - start), assigned to
\* ssl->rbio; binds keeps, for each such assignment of the call, where the
\* new BIO starts and how far the engine had read the buffer through the old
BioOverReader(w) ==
  [w EXCEPT !.vc.rbio = [kind |-> "mem", pos |-> w.vc.handShakeReader,
                         lim |-> ReaderEnd(w)],
            !.binds = Append(@, [start |-> w.vc.handShakeReader,
                                 seen |-> w.vc.rbio.pos])]

\* SSL_free
SSL_free(w) == [w EXCEPT !.vc.ssl = FALSE, !.vc.rbio = [kind |-> "none", pos |-> 0, lim |-> 0]]

\* SSL_new can fail; the server side gets the handshake buffers and a memory
\* read BIO, the client side reads the socket directly
make_ssl_connection(w) ==
  { w,
    IF w.vc.sslClientConnection
    THEN [w EXCEPT !.vc.ssl = TRUE, !.vc.rbio = [kind |-> "fd", pos |-> 0, lim |-> 0]]
    ELSE [initialize_handshake_buffers(w) EXCEPT
            !.vc.ssl = TRUE, !.vc.rbio = [kind |-> "mem", pos |-> 0, lim |-> 0]] }

(* ------------------------------ plugins -------------------------------- *)
\* faulty variant: the re-enable that starts the chain again
ReenableFromStart(w) ==
  readReschedule([w EXCEPT !.vc.sslPreAcceptHookState = SSL_HOOKS_INIT])

\* faulty variant: the re-enable that releases the SNI walk whatever the
\* pre-accept state is
ReenableBothChains(w) ==
  LET x == [w EXCEPT !.vc.sslSNIHookState = SNI_HOOKS_CONTINUE]
  IN IF w.vc.sslPreAcceptHookState # SSL_HOOKS_DONE
     THEN readReschedule([x EXCEPT !.vc.sslPreAcceptHookState = SSL_HOOKS_INVOKE])
     ELSE x

\* SSLNetVConnection::reenable
reenable(w) ==
  IF w.vc.sslPreAcceptHookState # SSL_HOOKS_DONE
  THEN readReschedule([w EXCEPT !.vc.sslPreAcceptHookState = SSL_HOOKS_INVOKE])
  ELSE [w EXCEPT !.vc.sslSNIHookState = SNI_HOOKS_CONTINUE]

\* the verdicts a hook can leave in hookOpRequested: none, tunnel, terminate
Verdict(w, op) ==
  IF op = TS_SSL_HOOK_OP_DEFAULT THEN w
  ELSE Log([w EXCEPT !.vc.hookOpRequested = op], op)

HookOps == {TS_SSL_HOOK_OP_DEFAULT, TS_SSL_HOOK_OP_TUNNEL, TS_SSL_HOOK_OP_TERMINATE}

\* the continuation of pre-accept hook h handles TS_EVENT_VCONN_PRE_ACCEPT:
\* it may leave a verdict, and re-enables the vc in the callback or later
PreAcceptHandler(w, h) ==
  LET w0 == Log([w EXCEPT !.plug.pending = @ \ {h}, !.plug.ran = Append(@, h),
                           !.ranLocked = Append(@, w.targetLocked)], "pre_accept_hook")
  IN UNION { { Log(reenable(Verdict(w0, op)), "reenable"),
               [Verdict(w0, op) EXCEPT !.plug.running = @ \cup {h}] } : op \in HookOps }

\* MUTEX_TRY_LOCK(lock, target->mutex, eth) has succeeded:
\* target->handleEvent(eventId, edata) runs, and the lock is released when
\* the caller leaves its scope
HandleEvent(w, h) ==
  {[x EXCEPT !.targetLocked = FALSE] :
     x \in PreAcceptHandler([w EXCEPT !.targetLocked = TRUE], h)}

\* faulty variant: the invoker that calls the target without its mutex when
\* the try-lock fails
WrapUnlocked(w, h) ==
  LET w0 == [w EXCEPT !.plug.disp = Append(@, h)]
  IN HandleEvent(w0, h) \cup PreAcceptHandler(w0, h)

\* ContWrapper::wrap: run the target under its mutex, or schedule a
\* ContWrapper that tries again
wrap(w, h) ==
  LET w0 == [w EXCEPT !.plug.disp = Append(@, h)]
  IN HandleEvent(w0, h) \cup {[w0 EXCEPT !.plug.pending = @ \cup {h}]}

\* ContWrapper::event_handler: deliver under the target's mutex, or
\* schedule itself again
event_handler(w, h) == HandleEvent(w, h) \cup {w}

\* APIHook::next on the chain of n hooks 1..n; 0 is the null hook
NextHook(h, n) == IF h >= 1 /\ h < n THEN h + 1 ELSE 0

\* ssl_hooks->get: the head of a chain of n hooks
HeadHook(n) == IF n >= 1 THEN 1 ELSE 0

\* hook->invoke(TS_SSL_SNI_HOOK, this): the plugin may leave a verdict and
\* re-enables in the callback, or withholds the re-enable until later
SniHandler(w, hook) ==
  LET call(re) == [hook |-> hook, state |-> w.vc.sslSNIHookState, reenabled |-> re]
      w0 == Log(w, "sni_hook")
  IN UNION { { Log(reenable(Verdict([w0 EXCEPT !.walk = Append(@, call(TRUE))], op)),
                   "reenable"),
               [Verdict([w0 EXCEPT !.walk = Append(@, call(FALSE))], op)
                  EXCEPT !.plug.sniOwed = TRUE] } : op \in HookOps }

\* faulty variant: the walk that goes on after a hook withheld its re-enable
\* and answers for the last hook only
RECURSIVE WalkToTheEnd(_, _)
WalkToTheEnd(w, hook) ==
  IF hook # 0
  THEN LET invoked == SniHandler([w EXCEPT !.vc.sslSNIHookState = SNI_HOOKS_DONE], hook)
           after(x) == WalkToTheEnd(
                         [x EXCEPT !.rc = (x.vc.sslSNIHookState # SNI_HOOKS_DONE)],
                         NextHook(hook, x.cfg.nSni))
       IN Bind(invoked, after)
  ELSE {w}

\* SSLNetVConnection::callHooks: the loop over the SNI chain from hook on;
\* rc is the value returned (reenabled)
RECURSIVE callHooksFrom(_, _)
callHooksFrom(w, hook) ==
  IF hook # 0 /\ w.rc
  THEN LET invoked == SniHandler([w EXCEPT !.vc.sslSNIHookState = SNI_HOOKS_DONE], hook)
           after(x) == callHooksFrom(
                         [x EXCEPT !.rc = (x.vc.sslSNIHookState # SNI_HOOKS_DONE)],
                         NextHook(hook, x.cfg.nSni))
       IN Bind(invoked, after)
  ELSE {w}

callHooks(w) == callHooksFrom([w EXCEPT !.rc = TRUE], HeadHook(w.cfg.nSni))

(* ------------------------------- socket -------------------------------- *)
\* socketManager.read / readv for up to n bytes: some of the bytes the peer
\* has still to send, -EAGAIN, end of file, or -ECONNRESET
SocketRead(w, n) ==
  IF n = 0 THEN {0}
  ELSE (1..Min(n, MaxWire - w.sock.pos)) \cup {-EAGAIN, 0, -ECONNRESET}

\* the do-while of read_raw_data: b is the write block the scatter list
\* starts at (1: the first write block of handShakeBuffer, 0: none left)
RECURSIVE ReadLoop(_, _, _)
ReadLoop(w, b, total_read) ==
  LET ends == BlockEnds(w.cfg.hsBlocks)
      room == {j \in DOMAIN ends : ends[j] > Len(w.vc.handShakeBuffer)}
      a == IF b = 1 THEN SumSeq(w.cfg.hsBlocks) - Len(w.vc.handShakeBuffer) ELSE 0
      niov == IF b = 1 THEN Cardinality(room) ELSE 0
      rattempted == a
      step(r) ==
        LET w1 == [Log(w, "socket_read") EXCEPT !.r = r]
            total == total_read + rattempted
        IN IF rattempted > 0 /\ r = rattempted
           THEN ReadLoop(w1, 0, total)
           ELSE {[w1 EXCEPT !.r = IF total # rattempted
                                  THEN (IF r <= 0 THEN total - rattempted
                                        ELSE total - rattempted + r)
                                  ELSE r]}
  IN UNION {step(r) : r \in SocketRead(w, IF niov >= 1 THEN a ELSE 0)}

\* SSLNetVConnection::read_raw_data; r is the value returned
read_raw_data(w) ==
  LET done(x) ==
        IF x.r <= 0 THEN {x}
        ELSE {BioOverReader(
               [x EXCEPT !.vc.handShakeBuffer =
                           @ \o SubSeq(Wire, x.sock.pos + 1, x.sock.pos + x.r),
                         !.sock.pos = @ + x.r])}
  IN Bind(ReadLoop(w, 1, 0), done)

(* ------------------------------- engine -------------------------------- *)
\* the engine reads k of the bytes pending in its memory read BIO; eaten
\* adds up what it reads in the call
BioRead(w, k) == [w EXCEPT !.vc.rbio.pos = @ + k, !.eaten = @ + k]

\* the servername callback the engine runs inside SSL_accept: the SNI hooks
\* are walked, and a hook that withholds the re-enable makes the engine
\* break out of the accept with SSL_ERROR_WANT_SNI_RESOLVE
ServernameCallback(w) ==
  LET broke(x) == IF x.rc THEN {x} ELSE {Ret(x, SSL_ERROR_WANT_SNI_RESOLVE)}
  IN Bind(callHooks(Log(w, "servername_callback")), broke)

\* SSLAccept(ssl): the engine reads some of its input, may run the
\* servername callback, and answers with an error code (in ret)
SSLAccept(w) ==
  LET w0 == Ret(Log(w, "SSLAccept"), "none")
      fed == {BioRead(w0, k) : k \in 0..BioPending(w0)}
      called(x) == {x} \cup ServernameCallback(x)
      answer(x) == IF x.ret = SSL_ERROR_WANT_SNI_RESOLVE
                   THEN {Log(x, SSL_ERROR_WANT_SNI_RESOLVE)}
                   ELSE {Ret(Log(x, e), e) : e \in HandshakeErrors}
  IN Bind(Bind(fed, called), answer)

\* SSLConnect(ssl): the client side reads the socket itself
SSLConnect(w) == {Ret(Log(w, "SSLConnect"), e) : e \in HandshakeErrors \ {SSL_ERROR_WANT_SNI_RESOLVE}}

\* SSL_get0_alpn_selected and SSL_get0_next_proto_negotiated: a protocol is
\* selected only from the set the vc advertises (npnSet)
Selections(w) ==
  IF w.vc.npnSet
  THEN {[alpn |-> a, npn |-> n] : a \in {"", "alpn_proto"}, n \in {"", "npn_proto"}}
  ELSE {[alpn |-> "", npn |-> ""]}

(* ------------------------ handshake coordinator ------------------------ *)
\* faulty variant: the lookup that leaves npnSet in place
ResolveKeepsSet(w, proto) ==
  LET w3 == Log(w, "findEndpoint")
  IN { Ret([w3 EXCEPT !.vc.npnEndpoint = proto], EVENT_DONE),
       Ret([w3 EXCEPT !.vc.npnEndpoint = ""], EVENT_ERROR) }

\* npnEndpoint = npnSet->findEndpoint(proto, len); npnSet = NULL: the set
\* resolves the protocol or does not
ResolveEndpoint(w, proto) ==
  LET w3 == Log(w, "findEndpoint")
  IN { Ret([w3 EXCEPT !.vc.npnEndpoint = proto, !.vc.npnSet = FALSE], EVENT_DONE),
       Ret([w3 EXCEPT !.vc.npnEndpoint = "", !.vc.npnSet = FALSE], EVENT_ERROR) }

\* faulty variant: the client's NPN choice wins over the server's ALPN choice
NpnPreferred(s) == IF s.npn # "" THEN s.npn ELSE s.alpn

\* SSL_get0_alpn_selected, and SSL_get0_next_proto_negotiated if (len == 0)
SelectedProtocol(s) == IF s.alpn # "" THEN s.alpn ELSE s.npn

\* faulty variant: the switch whose case SSL_ERROR_WANT_ACCEPT asks for a
\* read, as the client side does
AcceptWantsRead(w) ==
  LET e == w.ret
  IN CASE e = SSL_ERROR_NONE ->
            LET w1 == [w EXCEPT !.vc.sslHandShakeComplete = TRUE]
                pick(s) ==
                  LET proto == SelectedProtocol(s)
                      w2 == [w1 EXCEPT !.sel = s, !.proto = proto]
                  IN IF proto # ""
                     THEN ResolveEndpoint(w2, proto)
                     ELSE {Ret(w2, EVENT_DONE)}
            IN UNION {pick(s) : s \in Selections(w1)}
       [] e = SSL_ERROR_WANT_CONNECT -> {Ret(w, SSL_HANDSHAKE_WANT_CONNECT)}
       [] e = SSL_ERROR_WANT_WRITE -> {Ret(w, SSL_HANDSHAKE_WANT_WRITE)}
       [] e \in {SSL_ERROR_WANT_READ, SSL_ERROR_WANT_ACCEPT} ->
            {Ret(w, SSL_HANDSHAKE_WANT_READ)}
       [] e = SSL_ERROR_WANT_SNI_RESOLVE ->
            IF w.vc.attributes = TRANSPORT_BLIND_TUNNEL
               \/ w.vc.hookOpRequested = TS_SSL_HOOK_OP_TUNNEL
            THEN {Ret([w EXCEPT !.vc.attributes = TRANSPORT_BLIND_TUNNEL,
                                !.vc.sslHandShakeComplete = FALSE], EVENT_CONT)}
            ELSE {Ret(w, EVENT_CONT)}
       [] e = SSL_ERROR_WANT_X509_LOOKUP -> {Ret(w, EVENT_CONT)}
       [] OTHER -> {Ret(w, EVENT_ERROR)}

\* the switch on the answer of SSLAccept
ServerHandShakeResult(w) ==
  LET e == w.ret
  IN CASE e = SSL_ERROR_NONE ->
            LET w1 == [w EXCEPT !.vc.sslHandShakeComplete = TRUE]
                pick(s) ==
                  LET proto == SelectedProtocol(s)
                      w2 == [w1 EXCEPT !.sel = s, !.proto = proto]
                  IN IF proto # ""
                     THEN ResolveEndpoint(w2, proto)
                     ELSE {Ret(w2, EVENT_DONE)}
            IN UNION {pick(s) : s \in Selections(w1)}
       [] e = SSL_ERROR_WANT_CONNECT -> {Ret(w, SSL_HANDSHAKE_WANT_CONNECT)}
       [] e = SSL_ERROR_WANT_WRITE -> {Ret(w, SSL_HANDSHAKE_WANT_WRITE)}
       [] e = SSL_ERROR_WANT_READ -> {Ret(w, SSL_HANDSHAKE_WANT_READ)}
       [] e = SSL_ERROR_WANT_SNI_RESOLVE ->
            IF w.vc.attributes = TRANSPORT_BLIND_TUNNEL
               \/ w.vc.hookOpRequested = TS_SSL_HOOK_OP_TUNNEL
            THEN {Ret([w EXCEPT !.vc.attributes = TRANSPORT_BLIND_TUNNEL,
                                !.vc.sslHandShakeComplete = FALSE], EVENT_CONT)}
            ELSE {Ret(w, EVENT_CONT)}
       [] e \in {SSL_ERROR_WANT_ACCEPT, SSL_ERROR_WANT_X509_LOOKUP} -> {Ret(w, EVENT_CONT)}
       [] OTHER -> {Ret(w, EVENT_ERROR)}

\* the accept, once the pre-accept hooks are done
ServerAccept(w) ==
  IF w.vc.hookOpRequested = TS_SSL_HOOK_OP_TUNNEL
  THEN {Ret([SSL_free([w EXCEPT !.vc.attributes = TRANSPORT_BLIND_TUNNEL])
               EXCEPT !.vc.sslHandShakeComplete = TRUE], EVENT_DONE)}
  ELSE IF w.vc.hookOpRequested = TS_SSL_HOOK_OP_TERMINATE
  THEN {Ret([w EXCEPT !.vc.sslHandShakeComplete = TRUE], EVENT_DONE)}
  ELSE LET fed == IF BioPending(w) <= 0 THEN read_raw_data(w) ELSE {w}
       IN Bind(Bind(fed, SSLAccept), ServerHandShakeResult)

\* SSLNetVConnection::sslServerHandShakeEvent
sslServerHandShakeEvent(w) ==
  IF w.vc.sslPreAcceptHookState # SSL_HOOKS_DONE
  THEN LET w1 == IF w.vc.sslPreAcceptHookState = SSL_HOOKS_INIT
                 THEN [w EXCEPT !.vc.curHook = HeadHook(w.cfg.nPreAccept),
                                !.vc.sslPreAcceptHookState = SSL_HOOKS_INVOKE]
                 ELSE IF w.vc.sslPreAcceptHookState = SSL_HOOKS_INVOKE
                 THEN [w EXCEPT !.vc.curHook = NextHook(@, w.cfg.nPreAccept)]
                 ELSE w
       IN IF w1.vc.sslPreAcceptHookState = SSL_HOOKS_INVOKE
          THEN IF w1.vc.curHook = 0
               THEN ServerAccept([w1 EXCEPT !.vc.sslPreAcceptHookState = SSL_HOOKS_DONE])
               ELSE {Ret(x, SSL_WAIT_FOR_HOOK) :
                       x \in wrap([w1 EXCEPT !.vc.sslPreAcceptHookState = SSL_HOOKS_ACTIVE],
                                  w1.vc.curHook)}
          ELSE {Ret(w1, SSL_WAIT_FOR_HOOK)}
  ELSE ServerAccept(w)

\* SSLNetVConnection::sslClientHandShakeEvent
sslClientHandShakeEvent(w) ==
  LET result(x) ==
        LET e == x.ret
        IN CASE e = SSL_ERROR_NONE ->
                  LET x1 == IF x.cfg.debug /\ x.vc.write.enabled
                            THEN writeReschedule(x) ELSE x
                  IN {Ret([x1 EXCEPT !.vc.sslHandShakeComplete = TRUE], EVENT_DONE)}
             [] e = SSL_ERROR_WANT_WRITE -> {Ret(x, SSL_HANDSHAKE_WANT_WRITE)}
             [] e = SSL_ERROR_WANT_READ -> {Ret(x, SSL_HANDSHAKE_WANT_READ)}
             [] e = SSL_ERROR_WANT_ACCEPT -> {Ret(x, SSL_HANDSHAKE_WANT_ACCEPT)}
             [] e \in {SSL_ERROR_WANT_X509_LOOKUP, SSL_ERROR_WANT_CONNECT} ->
                  {Ret(x, EVENT_CONT)}
             [] OTHER -> {Ret(x, EVENT_ERROR)}
  IN Bind(SSLConnect(w), result)

\* SSLNetVConnection::sslStartHandShake
sslStartHandShake(w) ==
  IF ~w.vc.sslClientConnection
  THEN IF ~w.vc.ssl /\ w.cfg.ccTunnel /\ w.vc.is_transparent
       THEN {Ret([SSL_free([w EXCEPT !.vc.attributes = TRANSPORT_BLIND_TUNNEL])
                    EXCEPT !.vc.sslHandShakeComplete = TRUE], EVENT_DONE)}
       ELSE LET made == IF ~w.vc.ssl THEN make_ssl_connection(w) ELSE {w}
                go(x) == IF ~x.vc.ssl THEN {Ret(x, EVENT_ERROR)}
                         ELSE sslServerHandShakeEvent(x)
            IN Bind(made, go)
  ELSE LET made == IF ~w.vc.ssl THEN make_ssl_connection(w) ELSE {w}
           go(x) == IF ~x.vc.ssl THEN {Ret(x, EVENT_ERROR)}
                    ELSE sslClientHandShakeEvent(x)
       IN Bind(made, go)

(* ------------------------ record layer, reading ------------------------ *)
\* MIOBuffer::fill on the write blocks: n bytes fill the blocks in order
RECURSIVE FillBlocks(_, _)
FillBlocks(blocks, n) ==
  IF blocks = <<>> \/ n <= 0 THEN blocks
  ELSE LET k == Min(Head(blocks), n)
       IN <<Head(blocks) - k>> \o FillBlocks(Tail(blocks), n - k)

\* what SSLReadBuffer(ssl, buf, avail, nread) can answer: SSL_ERROR_NONE with
\* 1..avail bytes, or an error code with nread zero or not
ReadAnswers(avail) ==
  {[err |-> SSL_ERROR_NONE, nread |-> n] : n \in 1..avail}
  \cup {[err |-> e, nread |-> 0] :
          e \in {SSL_ERROR_WANT_WRITE, SSL_ERROR_WANT_READ, SSL_ERROR_WANT_X509_LOOKUP,
                 SSL_ERROR_SYSCALL, SSL_ERROR_ZERO_RETURN, SSL_ERROR_SSL}}
  \cup {[err |-> SSL_ERROR_SYSCALL, nread |-> 1]}

\* the engine decrypts: it reads some of its pending input and answers
SSLReadBuffer(w, avail) ==
  {[BioRead(Log(w, "SSLReadBuffer"), k) EXCEPT !.ans = a] :
     k \in 0..BioPending(w), a \in ReadAnswers(avail)}

\* faulty variant: the switch without its case for SSL_ERROR_ZERO_RETURN,
\* which then is an error like any other
CloseIsError(a) ==
  CASE a.err = SSL_ERROR_WANT_WRITE -> SSL_WRITE_WOULD_BLOCK
    [] a.err = SSL_ERROR_WANT_READ -> SSL_READ_WOULD_BLOCK
    [] a.err = SSL_ERROR_WANT_X509_LOOKUP -> SSL_READ_WOULD_BLOCK
    [] a.err = SSL_ERROR_SYSCALL -> IF a.nread # 0 THEN SSL_READ_ERROR ELSE SSL_READ_EOS
    [] OTHER -> SSL_READ_ERROR

\* faulty variant: the switch whose case SSL_ERROR_WANT_X509_LOOKUP asks
\* for a write
LookupWantsWrite(a) ==
  CASE a.err = SSL_ERROR_WANT_WRITE -> SSL_WRITE_WOULD_BLOCK
    [] a.err = SSL_ERROR_WANT_READ -> SSL_READ_WOULD_BLOCK
    [] a.err = SSL_ERROR_WANT_X509_LOOKUP -> SSL_WRITE_WOULD_BLOCK
    [] a.err = SSL_ERROR_SYSCALL -> IF a.nread # 0 THEN SSL_READ_ERROR ELSE SSL_READ_EOS
    [] a.err = SSL_ERROR_ZERO_RETURN -> SSL_READ_EOS
    [] OTHER -> SSL_READ_ERROR

\* the switch on sslErr in ssl_read_from_net: the event for an error code
ReadErrorEvent(a) ==
  CASE a.err = SSL_ERROR_WANT_WRITE -> SSL_WRITE_WOULD_BLOCK
    [] a.err = SSL_ERROR_WANT_READ -> SSL_READ_WOULD_BLOCK
    [] a.err = SSL_ERROR_WANT_X509_LOOKUP -> SSL_READ_WOULD_BLOCK
    [] a.err = SSL_ERROR_SYSCALL -> IF a.nread # 0 THEN SSL_READ_ERROR ELSE SSL_READ_EOS
    [] a.err = SSL_ERROR_ZERO_RETURN -> SSL_READ_EOS
    [] OTHER -> SSL_READ_ERROR

\* the two loops of ssl_read_from_net: blocks i.. of the write chain, avail
\* bytes left in block i; leaves bytes_read, the event and sslErr in w
RECURSIVE ReadBlocks(_, _, _)
ReadBlocks(w, i, avail) ==
  IF i > Len(w.vc.read.vio.blocks) \/ w.sslErr # SSL_ERROR_NONE THEN {w}
  ELSE IF avail <= 0
  THEN ReadBlocks(w, i + 1,
                  IF i + 1 <= Len(w.vc.read.vio.blocks) THEN w.vc.read.vio.blocks[i + 1] ELSE 0)
  ELSE LET next(x) ==
             IF x.ans.err = SSL_ERROR_NONE
             THEN ReadBlocks([x EXCEPT !.bytes_read = @ + x.ans.nread], i, avail - x.ans.nread)
             ELSE ReadBlocks([x EXCEPT !.sslErr = x.ans.err, !.event = ReadErrorEvent(x.ans),
                                       !.r = IF ReadErrorEvent(x.ans) = SSL_READ_ERROR
                                             THEN ECONNRESET ELSE @],
                             i + 1, 0)
       IN Bind(SSLReadBuffer(w, avail), next)

\* faulty variant: the event of the error code is returned even when bytes
\* were decrypted before it
ErrorEventWins(w) ==
  LET w0 == [Log(w, "ssl_read_from_net") EXCEPT
                !.bytes_read = 0, !.event = SSL_READ_ERROR_NONE, !.sslErr = SSL_ERROR_NONE]
      first == IF w.vc.read.vio.blocks = <<>> THEN 0 ELSE w.vc.read.vio.blocks[1]
      after(x) ==
        IF x.bytes_read > 0
        THEN LET x1 == [x EXCEPT !.vc.read.vio.blocks = FillBlocks(@, x.bytes_read),
                                 !.vc.read.vio.buf = @ \o Repeat(AppByte, x.bytes_read),
                                 !.vc.read.vio.ndone = @ + x.bytes_read,
                                 !.r = x.bytes_read]
             IN {Ret(x1, IF x1.sslErr # SSL_ERROR_NONE THEN x1.event
                         ELSE IF x1.vc.read.vio.nbytes - x1.vc.read.vio.ndone <= 0
                         THEN SSL_READ_COMPLETE ELSE SSL_READ_READY)}
        ELSE {Ret(x, x.event)}
  IN Bind(ReadBlocks(w0, 1, first), after)

\* ssl_read_from_net; the event is left in ret, the out-parameter in r
ssl_read_from_net(w) ==
  LET w0 == [Log(w, "ssl_read_from_net") EXCEPT
                !.bytes_read = 0, !.event = SSL_READ_ERROR_NONE, !.sslErr = SSL_ERROR_NONE]
      first == IF w.vc.read.vio.blocks = <<>> THEN 0 ELSE w.vc.read.vio.blocks[1]
      after(x) ==
        IF x.bytes_read > 0
        THEN LET x1 == [x EXCEPT !.vc.read.vio.blocks = FillBlocks(@, x.bytes_read),
                                 !.vc.read.vio.buf = @ \o Repeat(AppByte, x.bytes_read),
                                 !.vc.read.vio.ndone = @ + x.bytes_read,
                                 !.r = x.bytes_read]
             IN {Ret(x1, IF x1.vc.read.vio.nbytes - x1.vc.read.vio.ndone <= 0
                         THEN SSL_READ_COMPLETE ELSE SSL_READ_READY)}
        ELSE {Ret(x, x.event)}
  IN Bind(ReadBlocks(w0, 1, first), after)

(* ------------------------ record layer, writing ------------------------ *)
\* SSLWriteBuffer(ssl, buf, l, r): the engine takes 1..l bytes, or answers an
\* error code and takes none
WriteAnswers(l) ==
  {[err |-> SSL_ERROR_NONE, r |-> n] : n \in 1..l}
  \cup {[err |-> e, r |-> 0] :
          e \in {SSL_ERROR_WANT_READ, SSL_ERROR_WANT_WRITE, SSL_ERROR_WANT_X509_LOOKUP,
                 SSL_ERROR_SYSCALL, SSL_ERROR_ZERO_RETURN, SSL_ERROR_SSL}}

\* errno as the engine's last system call left it
ErrnoValues == {0, EAGAIN, ECONNRESET}

\* faulty variant: dynamic sizing that never leaves the default record size
DefaultRecordCap(w, l) ==
  IF w.cfg.ssl_maxrecord > 0 /\ l > w.cfg.ssl_maxrecord THEN w.cfg.ssl_maxrecord
  ELSE IF w.cfg.ssl_maxrecord = -1 THEN Min(l, SSL_DEF_TLS_RECORD_SIZE)
  ELSE l

\* faulty variant: a positive ssl_maxrecord that cuts nothing
NoFixedCap(w, l) ==
  IF w.cfg.ssl_maxrecord = -1
  THEN LET dynamic_tls_record_size ==
             IF w.vc.sslTotalBytesSent < SSL_DEF_TLS_RECORD_BYTE_THRESHOLD
             THEN SSL_DEF_TLS_RECORD_SIZE ELSE SSL_MAX_TLS_RECORD_SIZE
       IN Min(l, dynamic_tls_record_size)
  ELSE l

\* the cap on one write operation: ssl_maxrecord, or the dynamic record size
RecordCap(w, l) ==
  IF w.cfg.ssl_maxrecord > 0 /\ l > w.cfg.ssl_maxrecord THEN w.cfg.ssl_maxrecord
  ELSE IF w.cfg.ssl_maxrecord = -1
  THEN LET dynamic_tls_record_size ==
             IF w.vc.sslTotalBytesSent < SSL_DEF_TLS_RECORD_BYTE_THRESHOLD
             THEN SSL_DEF_TLS_RECORD_SIZE ELSE SSL_MAX_TLS_RECORD_SIZE
       IN Min(l, dynamic_tls_record_size)
  ELSE l

\* the do-while of load_buffer_and_write: block b of blocks (read_avail of
\* each; past the end is the null block), offset into it; records keeps the
\* lengths SSLWriteBuffer was given, taken what it left in r each time
RECURSIVE WriteLoop(_, _, _, _, _)
WriteLoop(w, blocks, b, offset, towrite) ==
  LET again(x, nb, noff) ==
        IF x.r = x.l /\ x.total_written < towrite /\ nb <= Len(blocks)
        THEN WriteLoop(x, blocks, nb, noff, towrite) ELSE {x}
      avail == blocks[b] - offset
  IN IF avail <= 0
     THEN again([w EXCEPT !.l = avail], b + 1, -avail)
     ELSE LET orig_l == Min(avail, towrite - w.total_written)
              l == RecordCap(w, orig_l)
              wrote(a) ==
                LET x == [Log(w, "SSLWriteBuffer") EXCEPT
                            !.l = l, !.r = a.r, !.err = a.err,
                            !.total_written = @ + l,
                            !.wattempted = IF a.r = l THEN w.total_written + l ELSE l,
                            !.records = Append(@, l),
                            !.taken = Append(@, a.r)]
                IN IF l = orig_l THEN again(x, b + 1, 0) ELSE again(x, b, offset + l)
          IN IF l = 0 THEN {[w EXCEPT !.l = 0]}
             ELSE UNION {wrote(a) : a \in WriteAnswers(l)}

\* if (HttpProxyPort::TRANSPORT_BLIND_TUNNEL == this->attributes): the test
\* that sends read and write events of a tunnel to the plain path
BlindTunnel(w) == w.vc.attributes = TRANSPORT_BLIND_TUNNEL

\* UnixNetVConnection::load_buffer_and_write, the plain write of a tunnel
super_load_buffer_and_write(w) == {Log(w, "super::load_buffer_and_write")}

\* SSLNetVConnection::load_buffer_and_write; the value returned is left in r
load_buffer_and_write(w, towrite, blocks, clock) ==
  LET now == IF w.cfg.ssl_maxrecord = -1 THEN clock ELSE 0
      w0 == IF w.cfg.ssl_maxrecord = -1
               /\ now - w.vc.sslLastWriteTime > SSL_DEF_TLS_RECORD_MSEC_THRESHOLD
            THEN [w EXCEPT !.vc.sslTotalBytesSent = 0] ELSE w
      w1 == [w0 EXCEPT !.r = 0, !.l = 0, !.err = SSL_ERROR_NONE]
      result(x) ==
        IF x.r > 0
        THEN LET x1 == [x EXCEPT !.vc.sslLastWriteTime = now,
                                 !.vc.sslTotalBytesSent = @ + x.total_written]
             IN IF x1.total_written # x1.wattempted
                THEN {[x1 EXCEPT !.needs = @ \cup {"EVENTIO_WRITE"}]}
                ELSE {[x1 EXCEPT !.r = x1.total_written]}
        ELSE CASE x.err = SSL_ERROR_NONE -> {x}
               [] x.err = SSL_ERROR_WANT_READ ->
                    {[x EXCEPT !.needs = @ \cup {"EVENTIO_READ"}, !.r = -EAGAIN]}
               [] x.err \in {SSL_ERROR_WANT_WRITE, SSL_ERROR_WANT_X509_LOOKUP} ->
                    {[x EXCEPT !.needs = @ \cup {"EVENTIO_WRITE"}, !.r = -EAGAIN]}
               [] OTHER -> {[x EXCEPT !.r = -e] : e \in ErrnoValues}
  IN IF BlindTunnel(w0)
     THEN super_load_buffer_and_write(w0)
     ELSE Bind(WriteLoop(w1, blocks, 1, 0, towrite), result)

\* write_io of the vc: nothing is written while the handshake is going on
write_io(w, towrite, blocks, clock) ==
  IF ~w.vc.sslHandShakeComplete THEN {w}
  ELSE load_buffer_and_write(w, towrite, blocks, clock)

\* the readable bytes of the blocks of the write VIO buffer
WriteLayouts == {<<MaxTowrite>>, <<1, 1>>, <<0, 1>>}

(* ------------------------------ net_read_io ---------------------------- *)
\* #ifdef TS_USE_PORT: the builds that define the macro (whatever its
\* value) and those that do not
TS_USE_PORT == {TRUE, FALSE}

\* UnixNetVConnection::net_read_io, the plain read path of a tunnelled vc
super_net_read_io(w) == {Log(w, "super::net_read_io")}

\* if (!getSSLHandShakeComplete()): the handshake logic runs again
HandShakeIncomplete(w) == ~w.vc.sslHandShakeComplete

\* handShakeReader->consume(data_to_read - data_still_to_read)
ConsumeRead(w) ==
  LET data_still_to_read == BioPending(w)
      data_to_read == ReaderAvail(w)
  IN [w EXCEPT !.vc.handShakeReader = @ + (data_to_read - data_still_to_read)]

\* buf.writer()->write(handShakeHolder): every byte the holder still sees is
\* appended to the read VIO buffer
ReplayBytes(w) == ReaderBytes(w, w.vc.handShakeHolder)

\* faulty variant: the promotion that wakes upstream and replays nothing
PromoteWithoutReplay(w) == readSignalDone(w, VC_EVENT_READ_COMPLETE)

\* faulty variant: the promotion that counts the replayed bytes as done but
\* not as requested
PromotionAdvancesDone(w) ==
  LET w1 == readSignalDone(w, VC_EVENT_READ_COMPLETE)
  IN IF ~w1.vc.sslHandShakeComplete
     THEN LET bytes == ReplayBytes(w1)
              r == Len(bytes)
              w2 == Log([w1 EXCEPT !.vc.sslHandShakeComplete = TRUE,
                                   !.vc.read.vio.buf = @ \o bytes,
                                   !.vc.read.vio.blocks = FillBlocks(@, r),
                                   !.vc.read.vio.ndone = @ + r,
                                   !.copied = bytes,
                                   !.replayB = w1.vc.handShakeBuffer,
                                   !.replayP = w1.vc.handShakeReader], "copy")
          IN readSignalDone(free_handshake_buffers(w2), VC_EVENT_READ_COMPLETE)
     ELSE w1

\* faulty variant: the promotion without its second read-complete
PromotionSignalsOnce(w) ==
  LET w1 == readSignalDone(w, VC_EVENT_READ_COMPLETE)
  IN IF ~w1.vc.sslHandShakeComplete
     THEN LET bytes == ReplayBytes(w1)
              r == Len(bytes)
              w2 == Log([w1 EXCEPT !.vc.sslHandShakeComplete = TRUE,
                                   !.vc.read.vio.buf = @ \o bytes,
                                   !.vc.read.vio.blocks = FillBlocks(@, r),
                                   !.vc.read.vio.nbytes = @ + r,
                                   !.vc.read.vio.ndone = @ + r,
                                   !.copied = bytes,
                                   !.replayB = w1.vc.handShakeBuffer,
                                   !.replayP = w1.vc.handShakeReader], "copy")
          IN free_handshake_buffers(w2)
     ELSE w1

\* the vc has flipped to blind tunnel while the handshake buffers exist
TunnelPromotion(w) ==
  LET w1 == readSignalDone(w, VC_EVENT_READ_COMPLETE)
  IN IF ~w1.vc.sslHandShakeComplete
     THEN LET bytes == ReplayBytes(w1)
              r == Len(bytes)
              w2 == Log([w1 EXCEPT !.vc.sslHandShakeComplete = TRUE,
                                   !.vc.read.vio.buf = @ \o bytes,
                                   !.vc.read.vio.blocks = FillBlocks(@, r),
                                   !.vc.read.vio.nbytes = @ + r,
                                   !.vc.read.vio.ndone = @ + r,
                                   !.copied = bytes,
                                   !.replayB = w1.vc.handShakeBuffer,
                                   !.replayP = w1.vc.handShakeReader], "copy")
          IN readSignalDone(free_handshake_buffers(w2), VC_EVENT_READ_COMPLETE)
     ELSE w1

\* faulty variant: the dispatch without its branch for SSL_WAIT_FOR_HOOK
RescheduleAlways(w, ntodo) == readReschedule(w)

\* faulty variant: the chain of tests without its branch for
\* SSL_WAIT_FOR_HOOK, which then ends in the last else
HookWaitReschedules(w, ntodo) ==
  LET ret == w.ret
  IN IF ret = EVENT_ERROR
     THEN readSignalError([w EXCEPT !.vc.read.triggered = FALSE])
     ELSE IF ret \in {SSL_HANDSHAKE_WANT_READ, SSL_HANDSHAKE_WANT_ACCEPT}
     THEN readReschedule([w EXCEPT !.vc.read.triggered = FALSE,
                                   !.nh.read_ready_list = FALSE])
     ELSE IF ret \in {SSL_HANDSHAKE_WANT_CONNECT, SSL_HANDSHAKE_WANT_WRITE}
     THEN writeReschedule([w EXCEPT !.vc.write.triggered = FALSE,
                                    !.nh.write_ready_list = FALSE])
     ELSE IF ret = EVENT_DONE
     THEN IF ntodo <= 0
          THEN readSignalDone(w, VC_EVENT_READ_COMPLETE)
          ELSE [w EXCEPT !.vc.read.triggered = TRUE,
                         !.nh.read_ready_list = @ \/ w.vc.read.enabled]
     ELSE readReschedule(w)

\* the chain of tests on ret after the handshake step; ntodo is the
\* remaining demand read at the entry of net_read_io
HandShakeDispatch(w, ntodo) ==
  LET ret == w.ret
  IN IF ret = EVENT_ERROR
     THEN readSignalError([w EXCEPT !.vc.read.triggered = FALSE])
     ELSE IF ret \in {SSL_HANDSHAKE_WANT_READ, SSL_HANDSHAKE_WANT_ACCEPT}
     THEN readReschedule([w EXCEPT !.vc.read.triggered = FALSE,
                                   !.nh.read_ready_list = FALSE])
     ELSE IF ret \in {SSL_HANDSHAKE_WANT_CONNECT, SSL_HANDSHAKE_WANT_WRITE}
     THEN writeReschedule([w EXCEPT !.vc.write.triggered = FALSE,
                                    !.nh.write_ready_list = FALSE])
     ELSE IF ret = EVENT_DONE
     THEN IF ntodo <= 0
          THEN readSignalDone(w, VC_EVENT_READ_COMPLETE)
          ELSE [w EXCEPT !.vc.read.triggered = TRUE,
                         !.nh.read_ready_list = @ \/ w.vc.read.enabled]
     ELSE IF ret = SSL_WAIT_FOR_HOOK
     THEN w
     ELSE readReschedule(w)

\* the branch of net_read_io taken while the handshake is not complete
HandShakeStep(w, ntodo) ==
  LET after(x) ==
        IF x.vc.handShakeReader # NULL
        THEN IF x.vc.attributes # TRANSPORT_BLIND_TUNNEL
             THEN {HandShakeDispatch(ConsumeRead(x), ntodo)}
             ELSE {TunnelPromotion(x)}
        ELSE {HandShakeDispatch(x, ntodo)}
  IN Bind(sslStartHandShake(w), after)

\* the read BIO after the handshake: the socket once the handshake buffer is
\* drained, the rest of the handshake buffer while it is not
SwitchReadBio(w) ==
  IF w.vc.handShakeReader # NULL
  THEN IF ReaderAvail(w) <= 0
       THEN free_handshake_buffers(
              Log([w EXCEPT !.vc.rbio = [kind |-> "fd", pos |-> 0, lim |-> 0]], "SSL_set_rfd"))
       ELSE IF BioPending(w) > 0 THEN w ELSE BioOverReader(w)
  ELSE w

\* faulty variant: the switch whose case SSL_READ_EOS has lost its break and
\* falls into case SSL_READ_COMPLETE
EosFallsThrough(w, bytes) ==
  IF w.ret = SSL_READ_EOS
  THEN {readSignalDone(readSignalDone([w EXCEPT !.vc.read.triggered = FALSE],
                                      VC_EVENT_EOS), VC_EVENT_READ_COMPLETE)}
  ELSE IF w.ret = SSL_READ_COMPLETE
  THEN {readSignalDone(w, VC_EVENT_READ_COMPLETE)}
  ELSE IF w.ret = SSL_READ_ERROR
  THEN {readSignalError([w EXCEPT !.vc.read.triggered = FALSE])}
  ELSE {readReschedule(w)}

\* the switch on ret after the decrypt loop
ReadDispatch(w, bytes) ==
  LET ret == w.ret
      wouldblock(x) ==
        IF x.switched
        THEN {IF ret = SSL_READ_WOULD_BLOCK THEN readReschedule(x) ELSE writeReschedule(x)}
        ELSE LET x1 == [x EXCEPT !.vc.read.triggered = FALSE, !.nh.read_ready_list = FALSE]
             IN {IF defined
                 THEN IF ret = SSL_READ_WOULD_BLOCK THEN readReschedule(x1)
                      ELSE writeReschedule(x1)
                 ELSE x1 : defined \in TS_USE_PORT}
      switch(x) ==
        CASE ret \in {SSL_READ_ERROR_NONE, SSL_READ_READY} -> {readReschedule(x)}
          [] ret \in {SSL_WRITE_WOULD_BLOCK, SSL_READ_WOULD_BLOCK} -> wouldblock(x)
          [] ret = SSL_READ_EOS ->
               {readSignalDone([x EXCEPT !.vc.read.triggered = FALSE], VC_EVENT_EOS)}
          [] ret = SSL_READ_COMPLETE -> {readSignalDone(x, VC_EVENT_READ_COMPLETE)}
          [] ret = SSL_READ_ERROR -> {readSignalError([x EXCEPT !.vc.read.triggered = FALSE])}
          [] OTHER -> {x}
  IN IF bytes > 0 /\ ret \in {SSL_READ_WOULD_BLOCK, SSL_READ_READY}
     THEN UNION {IF x.rc THEN switch(x) ELSE {x} : x \in readSignalAndUpdate(w, VC_EVENT_READ_READY)}
     ELSE switch(w)

\* faulty variant: the do-while that goes on while the result is
\* SSL_READ_READY, whatever was decrypted
RECURSIVE LoopsWhileReady(_, _)
LoopsWhileReady(w, bytes) ==
  LET after(x) ==
        LET b == IF x.ret \in {SSL_READ_READY, SSL_READ_ERROR_NONE} THEN bytes + x.r
                 ELSE bytes
        IN IF x.ret = SSL_READ_READY \/ x.ret = SSL_READ_ERROR_NONE
           THEN LoopsWhileReady(x, b)
           ELSE ReadDispatch(x, b)
  IN Bind(ssl_read_from_net(w), after)

\* the do-while around ssl_read_from_net
RECURSIVE DecryptLoop(_, _)
DecryptLoop(w, bytes) ==
  LET after(x) ==
        LET b == IF x.ret \in {SSL_READ_READY, SSL_READ_ERROR_NONE} THEN bytes + x.r
                 ELSE bytes
        IN IF (x.ret = SSL_READ_READY /\ b = 0) \/ x.ret = SSL_READ_ERROR_NONE
           THEN DecryptLoop(x, b)
           ELSE ReadDispatch(x, b)
  IN Bind(ssl_read_from_net(w), after)

\* the branch of net_read_io taken once the handshake is complete
RecordRead(w, ntodo) ==
  IF ntodo <= 0 \/ SumSeq(w.vc.read.vio.blocks) = 0
  THEN {read_disable(w)}
  ELSE DecryptLoop(SwitchReadBio(w), 0)

\* SSLNetVConnection::net_read_io
net_read_io(w) ==
  LET ntodo == w.vc.read.vio.nbytes - w.vc.read.vio.ndone
  IN IF BlindTunnel(w)
     THEN super_net_read_io(w)
     ELSE IF w.vc.sslClientRenegotiationAbort
     THEN {readSignalError([w EXCEPT !.vc.read.triggered = FALSE])}
     ELSE {readReschedule(w)}
          \cup (LET x == [w EXCEPT !.locked = TRUE]
                IN IF ~x.vc.read.enabled
                   THEN {read_disable(x)}
                   ELSE IF HandShakeIncomplete(x)
                   THEN HandShakeStep(x, ntodo)
                   ELSE RecordRead(x, ntodo))

(* ----------------------------- teardown -------------------------------- *)
\* if (sslPreAcceptHookState == SSL_HOOKS_ACTIVE): a hook is outstanding
OutstandingHook(w) == w.vc.sslPreAcceptHookState = SSL_HOOKS_ACTIVE

\* SSLNetVConnection::free
free(w) ==
  LET w1 == SSL_free([w EXCEPT !.vc.read.triggered = FALSE,
                               !.vc.write.triggered = FALSE])
      w2 == [w1 EXCEPT !.vc.sslHandShakeComplete = FALSE,
                       !.vc.sslClientConnection = FALSE,
                       !.vc.sslLastWriteTime = 0,
                       !.vc.sslTotalBytesSent = 0,
                       !.vc.sslClientRenegotiationAbort = FALSE]
      w3 == IF OutstandingHook(w2)
            THEN Log(w2, "Error: SSLNetVconnection freed with outstanding hook")
            ELSE w2
  IN Log([w3 EXCEPT !.vc.sslPreAcceptHookState = SSL_HOOKS_INIT,
                    !.vc.curHook = 0,
                    !.vc.hookOpRequested = TS_SSL_HOOK_OP_DEFAULT,
                    !.vc.npnSet = FALSE,
                    !.vc.npnEndpoint = "",
                    !.vc.allocated = FALSE], "sslNetVCAllocator.free")

(* ------------------------------ actions -------------------------------- *)
\* the net handler delivers a read event to the vc
NetReadIO ==
  /\ vc.allocated
  /\ \E w \in Left(net_read_io(World)) : Commit(w)

\* a scheduled ContWrapper runs
ContWrapperEvent ==
  /\ vc.allocated
  /\ \E h \in plug.pending :
       \E w \in Left(event_handler(World, h)) : Commit(w)

\* a plugin that held a hook back calls reenable
PluginReenable ==
  /\ vc.allocated
  /\ \/ \E h \in plug.running :
          Commit(reenable([World EXCEPT !.plug.running = @ \ {h}]))
     \/ /\ plug.sniOwed
        /\ Commit(reenable([World EXCEPT !.plug.sniOwed = FALSE]))

\* setSSLClientRenegotiationAbort(true): the engine's info callback sees a
\* client start a handshake on a session whose handshake is complete
ClientRenegotiation ==
  /\ vc.allocated /\ vc.ssl /\ ~vc.sslClientConnection
  /\ vc.sslHandShakeComplete /\ ~vc.sslClientRenegotiationAbort
  /\ Commit([World EXCEPT !.vc.sslClientRenegotiationAbort = TRUE])

\* the vc is closed and returned to its allocator
Free ==
  /\ vc.allocated
  /\ Commit(free(World))

\* what write_io is called with: the budget, the buffer and the clock
WriteInputs ==
  {[towrite |-> t, blocks |-> b, clock |-> c] :
     t \in 1..Min(MaxTowrite, MaxSent - vc.sslTotalBytesSent), b \in WriteLayouts,
     c \in IF cfg.ssl_maxrecord = -1 THEN vc.sslLastWriteTime..MaxClock ELSE {0}}

\* the net handler delivers a write event to the vc
WriteIO ==
  /\ vc.allocated
  /\ vc.sslTotalBytesSent < MaxSent
  /\ \E w \in Left(UNION {write_io(World, i.towrite, i.blocks, i.clock) : i \in WriteInputs}) :
       Commit(w)

Next ==
  \/ NetReadIO
  \/ WriteIO
  \/ ContWrapperEvent
  \/ PluginReenable
  \/ ClientRenegotiation
  \/ Free

Spec == Init /\ [][Next]_vars

\* a scheduled ContWrapper runs and gets the lock of its target
Deliver(h) ==
  /\ vc.allocated
  /\ h \in plug.pending
  /\ \E w \in Left(HandleEvent(World, h)) : Commit(w)

\* the event loop runs a scheduled ContWrapper again and again, and the
\* mutex of its target is free at one of the retries
SpecWrap == Init /\ [][Next]_vars /\ \A h \in 1..MaxHooks : WF_vars(Deliver(h))

(* ----------------------- management API client ------------------------ *)
TS_ERR_OKAY == "TS_ERR_OKAY"
TS_ERR_FAIL == "TS_ERR_FAIL"
TS_ERR_NET_ESTABLISH == "TS_ERR_NET_ESTABLISH"
TS_ERR_NET_READ == "TS_ERR_NET_READ"
TS_ERR_NET_WRITE == "TS_ERR_NET_WRITE"

\* the world of one call of the management API: what it did, in order, each
\* with the code it got, and the code it returns
MgmtWorld == [log |-> <<>>, ret |-> TS_ERR_OKAY]

\* MGMTAPI_SEND_MESSAGE(main_socket_fd, op, ...): the framed request is
\* written to the socket or the write fails
SendMessage(m, op) ==
  {[m EXCEPT !.log = Append(@, [op |-> "send " \o op, code |-> c]), !.ret = c] :
     c \in {TS_ERR_OKAY, TS_ERR_NET_WRITE}}

\* parse_generic_response(op, main_socket_fd): the reply is read and its
\* error code unmarshalled
parse_generic_response(m, op) ==
  {[m EXCEPT !.log = Append(@, [op |-> "parse_generic_response " \o op, code |-> c]),
             !.ret = c] :
     c \in {TS_ERR_OKAY, TS_ERR_NET_READ, TS_ERR_FAIL}}

\* reconnect_loop(num_attempts): reconnect until it succeeds, num_attempts
\* times at most
RECURSIVE reconnect_loop(_, _)
reconnect_loop(m, num_attempts) ==
  IF num_attempts <= 0 THEN {[m EXCEPT !.ret = TS_ERR_NET_ESTABLISH]}
  ELSE {[m EXCEPT !.log = Append(@, [op |-> "reconnect", code |-> TS_ERR_OKAY]),
                  !.ret = TS_ERR_OKAY]}
       \cup reconnect_loop(
              [m EXCEPT !.log = Append(@, [op |-> "reconnect", code |-> TS_ERR_NET_ESTABLISH])],
              num_attempts - 1)

\* faulty variant: the restart that reconnects whatever the daemon answered
RestartReconnectsAnyway(m, cluster) ==
  LET sent(x) == IF x.ret # TS_ERR_OKAY THEN {x}
                 ELSE UNION {reconnect_loop(y, MAX_CONN_TRIES) :
                               y \in parse_generic_response(x, "RESTART")}
  IN UNION {sent(x) : x \in SendMessage(m, "RESTART")}

\* Restart(cluster) of CoreAPIRemote.cc
Restart(m, cluster) ==
  LET parsed(y) == IF y.ret = TS_ERR_OKAY THEN reconnect_loop(y, MAX_CONN_TRIES) ELSE {y}
      sent(x) == IF x.ret # TS_ERR_OKAY THEN {x}
                 ELSE UNION {parsed(y) : y \in parse_generic_response(x, "RESTART")}
  IN UNION {sent(x) : x \in SendMessage(m, "RESTART")}

\* the API client calls Restart
CallRestart ==
  /\ Len(mgmt.calls) < MaxRestarts
  /\ \E cluster \in BOOLEAN :
       \E m \in Restart(MgmtWorld, cluster) :
         mgmt' = [mgmt EXCEPT !.calls = Append(@, [cluster |-> cluster, log |-> m.log,
                                                    ret |-> m.ret])]
  /\ UNCHANGED <<vc, nh, sock, plug, cfg, hist>>

\* the API client, in a process of its own: the connection is none of its
\* state
InitMgmt ==
  /\ vc = [NewVC(FALSE, FALSE, 0, <<>>, FALSE) EXCEPT !.allocated = FALSE]
  /\ cfg = [nPreAccept |-> 0, nSni |-> 0, ccTunnel |-> FALSE, debug |-> FALSE,
            ssl_maxrecord |-> 0,
            hsBlocks |-> <<HsBlockSize>>]
  /\ nh = [read_ready_list |-> FALSE, write_ready_list |-> FALSE]
  /\ sock = [pos |-> 0]
  /\ plug = [disp |-> <<>>, pending |-> {}, running |-> {}, sniOwed |-> FALSE, ran |-> <<>>]
  /\ hist = [done |-> 0]
  /\ mgmt = [calls |-> <<>>]

NextMgmt == CallRestart

SpecMgmt == InitMgmt /\ [][NextMgmt]_vars

\* a server whose records.config sets ssl_maxrecord to -1, dynamic record
\* sizing; everything else as in Init
InitDyn ==
  /\ \E d \in Demands, nPre \in 0..1 :
       /\ vc = NewVC(FALSE, FALSE, d.nbytes, d.blocks, FALSE)
       /\ cfg = [nPreAccept |-> nPre, nSni |-> 0, ccTunnel |-> FALSE, debug |-> FALSE,
                 ssl_maxrecord |-> -1,
                 hsBlocks |-> <<HsBlockSize>>]
  /\ nh = [read_ready_list |-> TRUE, write_ready_list |-> FALSE]
  /\ sock = [pos |-> 0]
  /\ plug = [disp |-> <<>>, pending |-> {}, running |-> {}, sniOwed |-> FALSE, ran |-> <<>>]
  /\ hist = [done |-> 0]
  /\ mgmt = [calls |-> <<>>]

SpecDyn == InitDyn /\ [][Next]_vars

\* a read event after the handshake, with the handshake buffer still
\* attached, in which the engine reads all the input it is given
DrainingRead ==
  /\ vc.allocated /\ vc.sslHandShakeComplete /\ vc.handShakeReader # NULL
  /\ \E w \in Left({x \in net_read_io(World) : x.locked /\ BioPending(x) = 0}) : Commit(w)

\* the net handler keeps delivering such read events
SpecDrain == Init /\ [][Next]_vars /\ WF_vars(DrainingRead)

\* a server whose handshake buffer is a chain of two blocks of one byte;
\* everything else as in InitDyn
InitChain ==
  /\ \E d \in Demands, nPre \in 0..1 :
       /\ vc = NewVC(FALSE, FALSE, d.nbytes, d.blocks, FALSE)
       /\ cfg = [nPreAccept |-> nPre, nSni |-> 0, ccTunnel |-> FALSE, debug |-> FALSE,
                 ssl_maxrecord |-> 0, hsBlocks |-> <<1, 1>>]
  /\ nh = [read_ready_list |-> TRUE, write_ready_list |-> FALSE]
  /\ sock = [pos |-> 0]
  /\ plug = [disp |-> <<>>, pending |-> {}, running |-> {}, sniOwed |-> FALSE, ran |-> <<>>]
  /\ hist = [done |-> 0]
  /\ mgmt = [calls |-> <<>>]

SpecChain == InitChain /\ [][Next]_vars

\* a server under each setting of ssl_maxrecord: no cap, a cap of one byte,
\* dynamic record sizing; everything else as in InitDyn
InitWrite ==
  /\ \E d \in Demands, nPre \in 0..1, maxrecord \in {0, 1, -1} :
       /\ vc = NewVC(FALSE, FALSE, d.nbytes, d.blocks, FALSE)
       /\ cfg = [nPreAccept |-> nPre, nSni |-> 0, ccTunnel |-> FALSE, debug |-> FALSE,
                 ssl_maxrecord |-> maxrecord,
                 hsBlocks |-> <<HsBlockSize>>]
  /\ nh = [read_ready_list |-> TRUE, write_ready_list |-> FALSE]
  /\ sock = [pos |-> 0]
  /\ plug = [disp |-> <<>>, pending |-> {}, running |-> {}, sniOwed |-> FALSE, ran |-> <<>>]
  /\ hist = [done |-> 0]
  /\ mgmt = [calls |-> <<>>]

SpecWrite == InitWrite /\ [][Next]_vars

(* ============================== properties ============================= *)
\* the worlds a read event can leave behind, delivered in the current state
ReadOutcomes == IF vc.allocated THEN net_read_io(World) ELSE {}

\* the worlds a write event can leave behind, delivered in the current state
WriteOutcomes ==
  IF vc.allocated
  THEN UNION {write_io(World, i.towrite, i.blocks, i.clock) : i \in WriteInputs}
  ELSE {}

UpstreamEvents == {VC_EVENT_READ_READY, VC_EVENT_READ_COMPLETE, VC_EVENT_EOS, VC_EVENT_ERROR}

CompletionEvents == {VC_EVENT_READ_COMPLETE, VC_EVENT_EOS, VC_EVENT_ERROR}

FreedWithHook == "Error: SSLNetVconnection freed with outstanding hook"

\* C1: between construction and free, sslHandShakeComplete is monotonic: no
\* step of a vc that is not freed takes it from true to false. The branch
\* for SSL_ERROR_WANT_SNI_RESOLVE that assigns it 0 is out of reach once it
\* is true: no read event drives the engine handshake again.
C1_HandShakeMonotonic ==
  /\ [][(vc.allocated /\ vc.sslHandShakeComplete /\ vc'.allocated)
          => vc'.sslHandShakeComplete]_vars
  /\ []((vc.allocated /\ vc.sslHandShakeComplete)
          => \A w \in ReadOutcomes :
               /\ w.vc.sslHandShakeComplete
               /\ ~Has(w, "SSLAccept") /\ ~Has(w, "SSLConnect"))

\* a vc with SNI hooks finished its handshake and read a record afterwards
C1_Witness ==
  /\ vc.allocated /\ vc.sslHandShakeComplete /\ hist.done = 1
  /\ vc.sslSNIHookState = SNI_HOOKS_CONTINUE
  /\ vc.read.vio.ndone > 0

\* no engine decrypt and no engine encrypt is done by a read or a write event
\* delivered while the handshake is not complete
NoRecordIOBeforeHandShake ==
  (vc.allocated /\ ~vc.sslHandShakeComplete)
    => /\ \A w \in ReadOutcomes : ~Has(w, "ssl_read_from_net") /\ ~Has(w, "SSLReadBuffer")
       /\ \A w \in WriteOutcomes : ~Has(w, "SSLWriteBuffer")

C3_ReplayUnconsumed ==
  \A w \in ReadOutcomes :
    Has(w, "copy")
      => /\ w.copied = SubSeq(w.replayB, w.replayP + 1, Len(w.replayB))
         /\ w.vc.read.vio.buf = w.copied

\* C3 amended: the promotion copies every byte B read from the socket into
\* the handshake buffer, the prefix the engine consumed included, verbatim
\* and in order, as the first bytes of the read VIO buffer.
C3_ReplayAll ==
  \A w \in ReadOutcomes :
    Has(w, "copy")
      => /\ w.replayB = SubSeq(Wire, 1, w.sock.pos)
         /\ w.copied = w.replayB
         /\ w.vc.read.vio.buf = w.copied

\* a promotion that copies all the bytes of the wire after the engine has
\* consumed some of them
C3_Witness ==
  \E w \in ReadOutcomes :
    Has(w, "copy") /\ w.replayP > 0 /\ Len(w.copied) = MaxWire

\* C4: a read event that observes SSL_ERROR_WANT_SNI_RESOLVE after an SNI
\* hook asked for a tunnel ends with the vc a blind tunnel, the handshake
\* complete and the bytes H read from the socket at the head of the read VIO
\* buffer, in order; when the hook left its verdict during that call no
\* socket read lies between the verdict and the copy.
C4_SniTunnelReplay ==
  \A w \in ReadOutcomes :
    (Has(w, SSL_ERROR_WANT_SNI_RESOLVE) /\ w.vc.hookOpRequested = TS_SSL_HOOK_OP_TUNNEL)
      => /\ w.vc.attributes = TRANSPORT_BLIND_TUNNEL
         /\ w.vc.sslHandShakeComplete
         /\ Has(w, "copy")
         /\ Len(w.vc.read.vio.buf) >= w.sock.pos
         /\ SubSeq(w.vc.read.vio.buf, 1, w.sock.pos) = SubSeq(Wire, 1, w.sock.pos)
         /\ Has(w, TS_SSL_HOOK_OP_TUNNEL)
              => \A i \in DOMAIN w.log :
                   (Last(w.log, TS_SSL_HOOK_OP_TUNNEL) < i /\ i < First(w.log, "copy"))
                     => w.log[i] # "socket_read"

\* the hello was read in this call, the SNI hook asked for a tunnel and the
\* bytes were copied
C4_Witness ==
  \E w \in ReadOutcomes :
    /\ Has(w, "socket_read") /\ Has(w, "sni_hook") /\ Has(w, TS_SSL_HOOK_OP_TUNNEL)
    /\ Has(w, SSL_ERROR_WANT_SNI_RESOLVE) /\ Has(w, "copy")
    /\ w.sock.pos = MaxWire /\ w.vc.read.vio.buf = Wire

\* C5 as stated, in what it says of one call: no read event signals more
\* than one of read-complete, eos and error, and no upstream event follows
\* the one it signals.
C5_OneCompletion ==
  \A w \in ReadOutcomes :
    LET ups == Only(w.log, UpstreamEvents)
    IN \A i \in DOMAIN ups : ups[i] \in CompletionEvents => i = Len(ups)

\* C5 amended: a read event signals at most one upstream event, except the
\* promotion to blind tunnel that replays the handshake bytes, which signals
\* read-complete twice, before and after the copy.
C5_OneEventOrReplay ==
  \A w \in ReadOutcomes :
    LET ups == Only(w.log, UpstreamEvents)
    IN IF Has(w, "copy")
       THEN /\ ups = <<VC_EVENT_READ_COMPLETE, VC_EVENT_READ_COMPLETE>>
            /\ Only(w.log, {VC_EVENT_READ_COMPLETE, "copy"})
                 = <<VC_EVENT_READ_COMPLETE, "copy", VC_EVENT_READ_COMPLETE>>
       ELSE Len(ups) <= 1

\* a promotion with replay, and so two read-complete events in one call
C5_Witness ==
  \E w \in ReadOutcomes :
    Has(w, "copy") /\ Len(Only(w.log, CompletionEvents)) = 2

\* C6: ndone of the read VIO never exceeds its nbytes.
C6_DoneWithinRequested ==
  vc.allocated => vc.read.vio.ndone <= vc.read.vio.nbytes

\* C7: the pre-accept hooks are dispatched in chain order, each at most
\* once, and at most one invocation is outstanding (scheduled on a
\* ContWrapper, or delivered and not re-enabled yet).
C7_HookOrder ==
  /\ Len(plug.disp) <= cfg.nPreAccept
  /\ \A i \in DOMAIN plug.disp : plug.disp[i] = i
  /\ Cardinality(plug.pending \cup plug.running) <= 1
  /\ vc.allocated
       => \A h \in plug.pending \cup plug.running :
            h = vc.curHook /\ vc.sslPreAcceptHookState = SSL_HOOKS_ACTIVE

\* the second hook of the chain is outstanding on a ContWrapper
C7_Witness ==
  /\ vc.allocated /\ plug.disp = <<1, 2>> /\ plug.pending = {2}

\* C8 as stated: every read event delivered in state SSL_HOOKS_ACTIVE
\* returns SSL_WAIT_FOR_HOOK, reads no socket, does not call SSLAccept,
\* leaves curHook alone and reschedules no read.
C8_WaitsForHook ==
  (vc.allocated /\ vc.sslPreAcceptHookState = SSL_HOOKS_ACTIVE)
    => \A w \in ReadOutcomes :
         /\ w.ret = SSL_WAIT_FOR_HOOK
         /\ ~Has(w, "socket_read") /\ ~Has(w, "SSLAccept")
         /\ w.vc.curHook = vc.curHook
         /\ ~Has(w, "readReschedule")

\* C8 amended: a read event delivered in state SSL_HOOKS_ACTIVE reads no
\* socket, does not call SSLAccept and leaves curHook and the hook state
\* alone; when it gets the lock of the read VIO the handshake step returns
\* SSL_WAIT_FOR_HOOK and nothing is rescheduled, when it does not get the
\* lock it only reschedules the read.
C8_WaitsForHookUnderLock ==
  (vc.allocated /\ vc.sslPreAcceptHookState = SSL_HOOKS_ACTIVE)
    => \A w \in ReadOutcomes :
         /\ ~Has(w, "socket_read") /\ ~Has(w, "SSLAccept")
         /\ w.vc.curHook = vc.curHook
         /\ w.vc.sslPreAcceptHookState = SSL_HOOKS_ACTIVE
         /\ w.locked => (w.ret = SSL_WAIT_FOR_HOOK /\ w.log = <<>>)
         /\ ~w.locked => w.log = <<"readReschedule">>

\* a hook is held back by its plugin, and a read event can wait for it or
\* miss the lock
C8_Witness ==
  /\ vc.allocated /\ vc.sslPreAcceptHookState = SSL_HOOKS_ACTIVE
  /\ plug.running # {}
  /\ \E w \in ReadOutcomes : w.locked /\ w.ret = SSL_WAIT_FOR_HOOK
  /\ \E w \in ReadOutcomes : ~w.locked

\* C9: free logs the error 'freed with outstanding hook' when the hook state
\* is SSL_HOOKS_ACTIVE, and in no other hook state.
C9_FreeLogsOutstandingHook ==
  vc.allocated
    => (Has(free(World), FreedWithHook) <=> vc.sslPreAcceptHookState = SSL_HOOKS_ACTIVE)

\* a vc with a hook outstanding, whose free logs the error
C9_Witness ==
  /\ vc.allocated /\ vc.sslPreAcceptHookState = SSL_HOOKS_ACTIVE
  /\ plug.pending \cup plug.running # {}
  /\ Has(free(World), FreedWithHook)

\* C10: free called in state SSL_HOOKS_ACTIVE refuses: the vc is not handed
\* to the allocator and its hook state is untouched, so no invocation is
\* outstanding on a freed vc.
C10_RefusesToFree ==
  /\ (vc.allocated /\ vc.sslPreAcceptHookState = SSL_HOOKS_ACTIVE)
       => LET w == free(World)
          IN /\ w.vc.allocated
             /\ ~Has(w, "sslNetVCAllocator.free")
             /\ w.vc.sslPreAcceptHookState = SSL_HOOKS_ACTIVE
             /\ w.vc.curHook = vc.curHook
  /\ plug.pending \cup plug.running # {} => vc.allocated

(* ------------------------ dynamic record sizing ------------------------ *)
\* the calls of load_buffer_and_write a write event can make in the current
\* state, whatever sslTotalBytesSent has grown to
RecordInputs ==
  {[towrite |-> t, blocks |-> b, clock |-> c] :
     t \in 1..MaxTowrite, b \in WriteLayouts, c \in vc.sslLastWriteTime..MaxClock}

\* more than the idle threshold lies between the last write and clock
Idle(clock) == clock - vc.sslLastWriteTime > SSL_DEF_TLS_RECORD_MSEC_THRESHOLD

\* the bytes of the first block that holds any
FirstAvail(blocks) == blocks[CHOOSE b \in DOMAIN blocks :
                              blocks[b] > 0 /\ \A c \in 1..(b - 1) : blocks[c] = 0]

AcceptedOutcomes == {w \in ReadOutcomes : Has(w, "SSLAccept") /\ Has(w, SSL_ERROR_NONE)}

\* C12: on a successful server handshake the protocol looked up in the
\* registered protocol set is the one ALPN selected whenever ALPN selected
\* one, whatever NPN reports, and the one NPN selected only when ALPN
\* selected none; a selected protocol the set does not resolve makes
\* sslServerHandShakeEvent return EVENT_ERROR, and with no selection nothing
\* is looked up.
C12_AlpnPreferred ==
  \A w \in AcceptedOutcomes :
    /\ w.sel.alpn # "" => (Has(w, "findEndpoint") /\ w.proto = w.sel.alpn)
    /\ (w.sel.alpn = "" /\ w.sel.npn # "") => (Has(w, "findEndpoint") /\ w.proto = w.sel.npn)
    /\ (w.sel.alpn = "" /\ w.sel.npn = "") => (~Has(w, "findEndpoint") /\ w.ret = EVENT_DONE)
    /\ Has(w, "findEndpoint")
         => /\ w.vc.npnEndpoint \in {"", w.proto}
            /\ w.vc.npnEndpoint = "" <=> w.ret = EVENT_ERROR
            /\ w.vc.npnEndpoint = w.proto <=> w.ret = EVENT_DONE

\* ALPN and NPN both selected a protocol, and the one of ALPN was resolved;
\* another handshake selected one the set does not resolve
C12_Witness ==
  /\ \E w \in AcceptedOutcomes :
       /\ w.sel.alpn # "" /\ w.sel.npn # "" /\ w.sel.alpn # w.sel.npn
       /\ w.vc.npnEndpoint = w.sel.alpn /\ w.ret = EVENT_DONE
  /\ \E w \in AcceptedOutcomes :
       w.sel.alpn = "" /\ w.sel.npn # "" /\ w.vc.npnEndpoint = w.sel.npn
  /\ \E w \in AcceptedOutcomes :
       Has(w, "findEndpoint") /\ w.ret = EVENT_ERROR /\ Has(w, VC_EVENT_ERROR)

\* C13 as stated: after a successful server handshake that negotiated a
\* protocol exactly one of npnEndpoint and npnSet is set, and after one that
\* negotiated none both are empty, also when a set had been registered.
C13_OneOrNone ==
  \A w \in AcceptedOutcomes :
    w.ret = EVENT_DONE
      => IF w.proto # ""
         THEN (w.vc.npnEndpoint # "") # w.vc.npnSet
         ELSE w.vc.npnEndpoint = "" /\ ~w.vc.npnSet

\* C13 amended: after a successful server handshake that negotiated a
\* protocol npnEndpoint is the endpoint of that protocol and npnSet is
\* empty; after one that negotiated none npnEndpoint is empty and npnSet is
\* what it was before the handshake, the registered set if there is one.
C13_EndpointOrRegisteredSet ==
  \A w \in AcceptedOutcomes :
    w.ret = EVENT_DONE
      => IF w.proto # ""
         THEN w.vc.npnEndpoint = w.proto /\ ~w.vc.npnSet
         ELSE w.vc.npnEndpoint = "" /\ w.vc.npnSet = vc.npnSet

\* a set is registered; one handshake negotiates a protocol and resolves
\* it, another negotiates none and the set stays
C13_Witness ==
  /\ vc.npnSet
  /\ \E w \in AcceptedOutcomes :
       w.ret = EVENT_DONE /\ w.proto # "" /\ w.vc.npnEndpoint = w.proto /\ ~w.vc.npnSet
  /\ \E w \in AcceptedOutcomes :
       w.ret = EVENT_DONE /\ w.proto = "" /\ w.vc.npnSet /\ w.vc.sslHandShakeComplete

(* --------------------------- mode and session -------------------------- *)
\* C14: while the handshake buffers are attached, either the handshake is
\* not complete or handShakeReader still has bytes to read; in particular
\* after a tunnel or terminate verdict of a pre-accept hook.
C14_ReplayAttachedMeansPending ==
  (vc.allocated /\ vc.handShakeReader # NULL)
    => (~vc.sslHandShakeComplete \/ ReaderAvail(World) > 0)

\* C15: a vc in blind-tunnel mode holds no TLS session (ssl is NULL),
\* whichever way it became a tunnel.
C15_TunnelHasNoSession ==
  (vc.allocated /\ vc.attributes = TRANSPORT_BLIND_TUNNEL) => ~vc.ssl

\* the calls of load_buffer_and_write the net handler can make in the
\* current state
LoadOutcomes ==
  IF vc.allocated
  THEN UNION {load_buffer_and_write(World, i.towrite, i.blocks, i.clock) : i \in RecordInputs}
  ELSE {}

\* the entries of a call record that are uses of the TLS engine
EngineCalls ==
  {"SSLAccept", "SSLConnect", "SSLReadBuffer", "SSLWriteBuffer", "ssl_read_from_net",
   "servername_callback", "SSL_set_rfd"}

\* C16: attributes only changes from TRANSPORT_SSL to
\* TRANSPORT_BLIND_TUNNEL: no step of a vc that is not freed takes it back,
\* and every net_read_io and load_buffer_and_write of a blind tunnel does
\* nothing but call the method of the plain vc, without a use of the engine.
C16_TunnelIsFinal ==
  /\ [][(vc.allocated /\ vc.attributes = TRANSPORT_BLIND_TUNNEL /\ vc'.allocated)
          => vc'.attributes = TRANSPORT_BLIND_TUNNEL]_vars
  /\ []((vc.allocated /\ vc.attributes = TRANSPORT_BLIND_TUNNEL)
          => /\ \A w \in ReadOutcomes :
                  /\ w.log = <<"super::net_read_io">>
                  /\ w.vc.attributes = TRANSPORT_BLIND_TUNNEL
             /\ \A w \in LoadOutcomes :
                  /\ w.log = <<"super::load_buffer_and_write">>
                  /\ w.vc.attributes = TRANSPORT_BLIND_TUNNEL
             /\ \A w \in ReadOutcomes \cup LoadOutcomes :
                  \A k \in DOMAIN w.log : w.log[k] \notin EngineCalls)

\* a vc that became a tunnel by the verdict of a hook, with read and write
\* events still to come
C16_Witness ==
  /\ vc.allocated /\ vc.attributes = TRANSPORT_BLIND_TUNNEL
  /\ vc.hookOpRequested = TS_SSL_HOOK_OP_TUNNEL
  /\ ReadOutcomes # {} /\ LoadOutcomes # {}

(* ------------------------- post-handshake reads ------------------------ *)
\* what upstream is signalled by the call of world w, in order
Upstream(w) == Only(w.log, UpstreamEvents)

\* the read events that decrypt k > 0 bytes, fewer than the VIO still asks
\* for, before the engine answers e
DecryptedThen(e) ==
  {w \in ReadOutcomes :
     /\ Has(w, "ssl_read_from_net") /\ w.sslErr = e /\ w.bytes_read > 0
     /\ w.bytes_read < vc.read.vio.nbytes - vc.read.vio.ndone}

\* the read events in which the engine answers e before it decrypts a byte
DecryptedNothing(e) ==
  {w \in ReadOutcomes : Has(w, "ssl_read_from_net") /\ w.sslErr = e /\ w.bytes_read = 0}

\* the k bytes are in the buffer of the read VIO and counted in ndone
Delivered(w) ==
  /\ w.vc.read.vio.buf = vc.read.vio.buf \o Repeat(AppByte, w.bytes_read)
  /\ w.vc.read.vio.ndone = vc.read.vio.ndone + w.bytes_read

\* C17 as stated: a read event that decrypts k > 0 bytes, fewer than asked
\* for, before the engine wants to read signals one read-ready for the k
\* bytes and no completion, leaves the vc off the read-ready list with
\* read.triggered cleared, and re-arms the read.
C17_WantReadLeavesReadyList ==
  \A w \in DecryptedThen(SSL_ERROR_WANT_READ) :
    /\ Upstream(w) = <<VC_EVENT_READ_READY>>
    /\ Delivered(w)
    /\ ~w.vc.read.triggered /\ ~w.nh.read_ready_list
    /\ Has(w, "readReschedule")

\* C17 amended: such a read event signals one read-ready for the k bytes
\* and no completion, and, if upstream answers EVENT_CONT, reschedules the
\* read with read.triggered and the read-ready list as they were; it is a
\* read event in which the engine wants to read before it decrypts a byte
\* that signals nothing, clears read.triggered and takes the vc off the
\* read-ready list, and it reschedules the read only in a build that
\* defines TS_USE_PORT.
C17_WantReadAfterBytes ==
  /\ \A w \in DecryptedThen(SSL_ERROR_WANT_READ) :
       /\ Upstream(w) = <<VC_EVENT_READ_READY>>
       /\ Delivered(w)
       /\ w.vc.read.triggered = vc.read.triggered
       /\ w.nh.read_ready_list = nh.read_ready_list
       /\ Count(w.log, "readReschedule") = (IF w.rc THEN 1 ELSE 0)
       /\ ~Has(w, "writeReschedule")
  /\ \A w \in DecryptedNothing(SSL_ERROR_WANT_READ) :
       /\ Upstream(w) = <<>>
       /\ w.vc.read.vio = vc.read.vio
       /\ ~w.vc.read.triggered /\ ~w.nh.read_ready_list
       /\ Count(w.log, "readReschedule") <= 1
       /\ ~Has(w, "writeReschedule")

\* the vc is on the read-ready list and triggered; one read event decrypts
\* a byte of two and stays on the list, another decrypts none and leaves it
\* in either build
C17_Witness ==
  /\ vc.allocated /\ vc.read.triggered /\ nh.read_ready_list
  /\ \E w \in DecryptedThen(SSL_ERROR_WANT_READ) :
       w.rc /\ w.vc.read.triggered /\ w.nh.read_ready_list /\ Has(w, "readReschedule")
  /\ \E w \in DecryptedNothing(SSL_ERROR_WANT_READ) : Has(w, "readReschedule")
  /\ \E w \in DecryptedNothing(SSL_ERROR_WANT_READ) : ~Has(w, "readReschedule")

\* the read events in which the engine answers SSL_ERROR_ZERO_RETURN after
\* it decrypted some bytes
ClosedAfterBytes ==
  {w \in ReadOutcomes :
     Has(w, "ssl_read_from_net") /\ w.sslErr = SSL_ERROR_ZERO_RETURN /\ w.bytes_read > 0}

\* C18 as stated: a close-notify met before any byte is decrypted gives
\* upstream one eos; one met after k > 0 bytes has the bytes delivered by a
\* read-ready, which the eos follows, in this read event or a later one.
C18_ReadReadyThenEos ==
  /\ \A w \in DecryptedNothing(SSL_ERROR_ZERO_RETURN) : Upstream(w) = <<VC_EVENT_EOS>>
  /\ \A w \in ClosedAfterBytes :
       /\ Delivered(w)
       /\ Upstream(w) \in {<<VC_EVENT_READ_READY>>, <<VC_EVENT_READ_READY, VC_EVENT_EOS>>}

\* C18 amended: a close-notify met before any byte is decrypted gives
\* upstream one eos and clears read.triggered; one met after k > 0 bytes
\* has the bytes delivered, by one read-ready if the VIO still asks for
\* more and by one read-complete if it does not, and no eos is signalled by
\* that read event: after the read-ready the read is rescheduled, if
\* upstream answers EVENT_CONT, with read.triggered as it was.
C18_CloseNotify ==
  /\ \A w \in DecryptedNothing(SSL_ERROR_ZERO_RETURN) :
       /\ Upstream(w) = <<VC_EVENT_EOS>>
       /\ w.vc.read.vio = vc.read.vio
       /\ ~w.vc.read.triggered
  /\ \A w \in ClosedAfterBytes :
       /\ Delivered(w)
       /\ w.vc.read.triggered = vc.read.triggered
       /\ IF w.vc.read.vio.nbytes - w.vc.read.vio.ndone > 0
          THEN /\ Upstream(w) = <<VC_EVENT_READ_READY>>
               /\ Count(w.log, "readReschedule") = (IF w.rc THEN 1 ELSE 0)
          ELSE Upstream(w) = <<VC_EVENT_READ_COMPLETE>>

\* a VIO that asks for two more bytes: one read event meets the close-notify
\* at once and signals eos, another decrypts a byte first, signals
\* read-ready and is rescheduled
C18_Witness ==
  /\ vc.allocated /\ vc.read.triggered
  /\ \E w \in DecryptedNothing(SSL_ERROR_ZERO_RETURN) : Upstream(w) = <<VC_EVENT_EOS>>
  /\ \E w \in ClosedAfterBytes :
       /\ Upstream(w) = <<VC_EVENT_READ_READY>> /\ w.rc /\ Has(w, "readReschedule")
       /\ w.vc.read.vio.ndone < w.vc.read.vio.nbytes

(* --------------------------- re-enabling ------------------------------- *)
\* C19: reenable on a connection whose pre-accept hooks are not done sets the
\* pre-accept state to invoke and reschedules a read, leaving the SNI state;
\* on one whose pre-accept hooks are done it sets the SNI state to continue,
\* leaves the pre-accept state and schedules nothing
C19_ReenableFrame ==
  vc.allocated =>
    LET w == reenable(World)
    IN /\ w.nh = nh /\ w.sock = sock /\ w.plug = plug /\ w.cfg = cfg
       /\ IF vc.sslPreAcceptHookState # SSL_HOOKS_DONE
          THEN /\ w.vc = [vc EXCEPT !.sslPreAcceptHookState = SSL_HOOKS_INVOKE]
               /\ w.vc.sslSNIHookState = vc.sslSNIHookState
               /\ w.log = <<"readReschedule">>
          ELSE /\ w.vc = [vc EXCEPT !.sslSNIHookState = SNI_HOOKS_CONTINUE]
               /\ w.vc.sslPreAcceptHookState = SSL_HOOKS_DONE
               /\ w.log = <<>>

\* a plugin that withheld its SNI re-enable owes it on a connection whose
\* pre-accept hooks, dispatched and re-enabled earlier, are done
C19_Witness ==
  /\ vc.allocated /\ plug.sniOwed /\ plug.disp # <<>>
  /\ vc.sslPreAcceptHookState = SSL_HOOKS_DONE
  /\ vc.sslSNIHookState = SNI_HOOKS_DONE
  /\ reenable(World).vc.sslSNIHookState = SNI_HOOKS_CONTINUE
  /\ reenable(World).log = <<>>

(* ----------------------------- SNI walk -------------------------------- *)
\* the servername callback runs inside SSL_accept, on a server connection
\* whose pre-accept hooks are done and whose handshake is not
InAccept ==
  /\ vc.allocated /\ vc.ssl /\ ~vc.sslClientConnection
  /\ ~vc.sslHandShakeComplete /\ ~BlindTunnel(World)
  /\ vc.sslPreAcceptHookState = SSL_HOOKS_DONE

\* the walks callHooks can make from the state
SniWalks == IF InAccept THEN callHooks(World) ELSE {}

\* C20: callHooks invokes the SNI hooks in chain order, each with the SNI
\* state reset to done; it stops after the first hook that returns without
\* the re-enable, and returns true exactly when every hook of the chain
\* re-enabled (true for an empty chain)
C20_SniWalk ==
  \A w \in SniWalks :
    LET k == Len(w.walk)
        n == cfg.nSni
    IN /\ k <= n
       /\ \A i \in 1..k : w.walk[i].hook = i /\ w.walk[i].state = SNI_HOOKS_DONE
       /\ \A i \in 1..(k - 1) : w.walk[i].reenabled
       /\ k < n => (k >= 1 /\ ~w.walk[k].reenabled)
       /\ w.rc <=> (k = n /\ \A i \in 1..k : w.walk[i].reenabled)

\* a chain of two hooks: one walk stops at the first hook, one stops at the
\* second, one goes through both and returns true
C20_Witness ==
  /\ cfg.nSni = 2
  /\ \E w \in SniWalks : Len(w.walk) = 1 /\ ~w.rc
  /\ \E w \in SniWalks : Len(w.walk) = 2 /\ ~w.rc
  /\ \E w \in SniWalks : Len(w.walk) = 2 /\ w.rc

(* ------------------------------ teardown ------------------------------- *)
\* C21: once free has returned, whatever state the vc was in, the session is
\* none, the handshake is not complete, the handshake buffers are released,
\* the pre-accept state is init with no current hook and the default
\* verdict, the protocol set and endpoint are empty and the write timing
\* counters are zero
C21_FreeResetsEveryField ==
  ~vc.allocated =>
    /\ ~vc.ssl
    /\ ~vc.sslHandShakeComplete
    /\ vc.handShakeBuffer = <<>> /\ vc.handShakeHolder = NULL /\ vc.handShakeReader = NULL
    /\ vc.sslPreAcceptHookState = SSL_HOOKS_INIT
    /\ vc.curHook = 0
    /\ vc.hookOpRequested = TS_SSL_HOOK_OP_DEFAULT
    /\ ~vc.npnSet /\ vc.npnEndpoint = ""
    /\ vc.sslLastWriteTime = 0 /\ vc.sslTotalBytesSent = 0

(* ------------------------- the read VIO mutex -------------------------- *)
\* the events that reach the continuation of the read VIO
ReadSignals == {VC_EVENT_READ_READY, VC_EVENT_READ_COMPLETE, VC_EVENT_EOS, VC_EVENT_ERROR}

\* C22: a read event of a vc that is not a tunnel signals upstream only with
\* the mutex of the read VIO taken by try-lock in that call; when the
\* try-lock fails it signals nothing, changes nothing of the connection and
\* only reschedules the read; the client-renegotiation abort included
C22_SignalsUnderTryLock ==
  ~BlindTunnel(World) =>
    \A w \in ReadOutcomes :
      /\ (\E e \in ReadSignals : Has(w, e)) => w.locked
      /\ ~w.locked => /\ w.log = <<"readReschedule">>
                      /\ w.vc = vc /\ w.nh = nh /\ w.sock = sock /\ w.plug = plug

(* ------------------------- dual-lock invoker --------------------------- *)
\* what a scheduled ContWrapper for hook h can leave
RetryOutcomes(h) == IF vc.allocated /\ h \in plug.pending THEN event_handler(World, h) ELSE {}

\* every dispatch has run its handler once or is still scheduled, the
\* handler runs under the mutex of its target only, and a retry either
\* delivers or leaves everything as it was, scheduled again
InvokerSafe ==
  /\ \A h \in 1..MaxHooks :
       /\ Count(plug.disp, h) = Count(plug.ran, h) + (IF h \in plug.pending THEN 1 ELSE 0)
       /\ \A w \in RetryOutcomes(h) :
            \/ /\ w.plug.ran = Append(plug.ran, h) /\ h \notin w.plug.pending
               /\ w.ranLocked = <<TRUE>>
            \/ /\ w.ranLocked = <<>>
               /\ Left({w}) = Left({World})
  /\ \A w \in ReadOutcomes :
       /\ \A i \in DOMAIN w.ranLocked : w.ranLocked[i]
       /\ IF Len(w.plug.disp) > Len(plug.disp)
          THEN LET h == w.plug.disp[Len(w.plug.disp)]
               IN /\ w.plug.disp = Append(plug.disp, h)
                  /\ \/ w.plug.ran = Append(plug.ran, h) /\ h \notin w.plug.pending
                     \/ w.plug.ran = plug.ran /\ h \in w.plug.pending /\ w.ranLocked = <<>>
          ELSE w.plug.ran = plug.ran /\ w.ranLocked = <<>>

\* C23: each dispatch through ContWrapper::wrap runs the handler of its
\* target exactly once and only under the target's mutex; a failed try-lock
\* never blocks and schedules a ContWrapper that retries, and with the
\* mutex free at some retry the callback is delivered in the end (unless
\* the vc is closed first)
C23_DualLockInvoker ==
  /\ []InvokerSafe
  /\ \A h \in 1..MaxHooks :
       (vc.allocated /\ h \in plug.pending) ~> (h \notin plug.pending \/ ~vc.allocated)

\* the first hook has run and the second is scheduled, its try-lock having
\* failed: a retry can deliver it under the lock, or fail again
C23_Witness ==
  /\ vc.allocated
  /\ plug.disp = <<1, 2>> /\ plug.ran = <<1>> /\ plug.pending = {2}
  /\ \E w \in RetryOutcomes(2) : w.plug.ran = <<1, 2>> /\ w.ranLocked = <<TRUE>>
  /\ \E w \in RetryOutcomes(2) : w.plug.pending = {2} /\ w.ranLocked = <<>>

(* ------------------------ management RPC Restart ----------------------- *)
\* C24: Restart enters the reconnect loop, of MAX_CONN_TRIES attempts at
\* most, only after the RESTART request was sent and its response parsed as
\* TS_ERR_OKAY; after a failed send it reads no response and does not
\* reconnect, after an error response it does not reconnect, and it returns
\* that error
C24_RestartReconnect ==
  \A i \in DOMAIN mgmt.calls :
    LET c == mgmt.calls[i]
        ops == [j \in DOMAIN c.log |-> c.log[j].op]
        n == Count(ops, "reconnect")
    IN /\ Len(c.log) >= 1 /\ ops[1] = "send RESTART"
       /\ n <= MAX_CONN_TRIES
       /\ IF c.log[1].code # TS_ERR_OKAY
          THEN Len(c.log) = 1 /\ c.ret = c.log[1].code
          ELSE /\ Len(c.log) >= 2 /\ ops[2] = "parse_generic_response RESTART"
               /\ IF c.log[2].code # TS_ERR_OKAY
                  THEN Len(c.log) = 2 /\ c.ret = c.log[2].code
                  ELSE /\ n >= 1 /\ Len(c.log) = 2 + n
                       /\ \A j \in 3..Len(c.log) : ops[j] = "reconnect"
                       /\ c.ret = c.log[Len(c.log)].code

\* one call whose send failed, and one that reconnected at its last attempt
C24_Witness ==
  /\ Len(mgmt.calls) = 2
  /\ mgmt.calls[1].ret = TS_ERR_NET_WRITE /\ Len(mgmt.calls[1].log) = 1
  /\ mgmt.calls[2].ret = TS_ERR_OKAY /\ Len(mgmt.calls[2].log) = 2 + MAX_CONN_TRIES

(* ----------------- promotion after bytes were buffered ----------------- *)
\* the read event saw SSL_ERROR_WANT_SNI_RESOLVE with a tunnel verdict: the
\* SNI hook decided the tunnel, the handshake not being complete
SniTunnel(w) ==
  /\ Has(w, SSL_ERROR_WANT_SNI_RESOLVE)
  /\ w.vc.hookOpRequested = TS_SSL_HOOK_OP_TUNNEL

\* C25: at the end of a promotion decided in the SNI hook the handshake is
\* complete, the handshake buffers are released, and ndone and nbytes of
\* the read VIO have each grown by the number of bytes copied from the
\* handshake buffer, so that ntodo is what it was
C25_PromotionKeepsDemand ==
  \A w \in ReadOutcomes :
    SniTunnel(w) =>
      LET r == Len(w.copied)
      IN /\ w.vc.sslHandShakeComplete
         /\ w.vc.handShakeBuffer = <<>>
         /\ w.vc.handShakeReader = NULL /\ w.vc.handShakeHolder = NULL
         /\ w.vc.read.vio.buf = vc.read.vio.buf \o w.copied
         /\ w.vc.read.vio.ndone = vc.read.vio.ndone + r
         /\ w.vc.read.vio.nbytes = vc.read.vio.nbytes + r
         /\ w.vc.read.vio.nbytes - w.vc.read.vio.ndone
              = vc.read.vio.nbytes - vc.read.vio.ndone

\* the whole hello was buffered when the SNI hook asked for the tunnel, and
\* upstream still asks for bytes
C25_Witness ==
  \E w \in ReadOutcomes :
    /\ SniTunnel(w) /\ Has(w, "copy")
    /\ Len(w.copied) = MaxWire
    /\ vc.read.vio.nbytes > 0
    /\ w.vc.read.vio.nbytes = vc.read.vio.nbytes + MaxWire

\* the read event took a tunnel verdict that the pre-accept hooks left: the
\* accept was not driven and the handshake was marked complete at once
PreAcceptTunnel(w) ==
  /\ vc.attributes # TRANSPORT_BLIND_TUNNEL /\ w.vc.attributes = TRANSPORT_BLIND_TUNNEL
  /\ w.vc.hookOpRequested = TS_SSL_HOOK_OP_TUNNEL
  /\ ~Has(w, "SSLAccept")

\* what a read event signals upstream and does to the handshake buffers
PromotionSteps(w) == Only(w.log, ReadSignals \cup {"copy", "free_handshake_buffers"})

\* C26: a promotion decided in the SNI hook signals read-complete twice in
\* its read event, once before the copy into the read VIO buffer and once
\* after the copy and the release of the handshake buffers; a promotion on
\* a verdict of a pre-accept hook, the handshake being complete already,
\* signals read-complete once and copies nothing
C26_TwoReadCompletes ==
  \A w \in ReadOutcomes :
    /\ SniTunnel(w) =>
         PromotionSteps(w) = <<VC_EVENT_READ_COMPLETE, "copy", "free_handshake_buffers",
                               VC_EVENT_READ_COMPLETE>>
    /\ PreAcceptTunnel(w) =>
         /\ PromotionSteps(w) = <<VC_EVENT_READ_COMPLETE>>
         /\ w.vc.read.vio.buf = vc.read.vio.buf
         /\ w.vc.read.vio.ndone = vc.read.vio.ndone

\* the SNI hook asks for the tunnel in the read event that read the hello
C26_Witness ==
  \E w \in ReadOutcomes :
    /\ SniTunnel(w) /\ Has(w, "sni_hook") /\ Has(w, "socket_read")
    /\ Len(w.copied) = MaxWire
    /\ Count(w.log, VC_EVENT_READ_COMPLETE) = 2

(* ------------------------- read status mapping ------------------------- *)
\* the read events whose last ssl_read_from_net decrypted nothing and got
\* an error code from the engine
EmptyDecrypts ==
  {w \in ReadOutcomes : Has(w, "ssl_read_from_net") /\ w.bytes_read = 0
                          /\ w.sslErr # SSL_ERROR_NONE}

\* C27 as stated: with no byte decrypted, want-read gives read-would-block,
\* want-write and want-x509-lookup give write-would-block, zero-return and
\* syscall with nread = 0 give eos, syscall with nread # 0 and any other
\* error give error
C27_LookupIsWriteWouldBlock ==
  \A w \in EmptyDecrypts :
    w.ret = CASE w.sslErr = SSL_ERROR_WANT_READ -> SSL_READ_WOULD_BLOCK
              [] w.sslErr \in {SSL_ERROR_WANT_WRITE, SSL_ERROR_WANT_X509_LOOKUP} ->
                   SSL_WRITE_WOULD_BLOCK
              [] w.sslErr = SSL_ERROR_ZERO_RETURN -> SSL_READ_EOS
              [] w.sslErr = SSL_ERROR_SYSCALL ->
                   IF w.ans.nread = 0 THEN SSL_READ_EOS ELSE SSL_READ_ERROR
              [] OTHER -> SSL_READ_ERROR

\* C27 amended: as stated, but want-x509-lookup gives read-would-block, as
\* want-read does
C27_LookupIsReadWouldBlock ==
  \A w \in EmptyDecrypts :
    w.ret = CASE w.sslErr \in {SSL_ERROR_WANT_READ, SSL_ERROR_WANT_X509_LOOKUP} ->
                   SSL_READ_WOULD_BLOCK
              [] w.sslErr = SSL_ERROR_WANT_WRITE -> SSL_WRITE_WOULD_BLOCK
              [] w.sslErr = SSL_ERROR_ZERO_RETURN -> SSL_READ_EOS
              [] w.sslErr = SSL_ERROR_SYSCALL ->
                   IF w.ans.nread = 0 THEN SSL_READ_EOS ELSE SSL_READ_ERROR
              [] OTHER -> SSL_READ_ERROR

\* every error code of the engine is seen on a read that decrypted nothing,
\* the system call error with nread zero and not zero
C27_Witness ==
  /\ \A e \in {SSL_ERROR_WANT_READ, SSL_ERROR_WANT_WRITE, SSL_ERROR_WANT_X509_LOOKUP,
                SSL_ERROR_ZERO_RETURN, SSL_ERROR_SYSCALL, SSL_ERROR_SSL} :
       \E w \in EmptyDecrypts : w.sslErr = e
  /\ \E w \in EmptyDecrypts : w.sslErr = SSL_ERROR_SYSCALL /\ w.ans.nread # 0
  /\ \E w \in EmptyDecrypts :
       w.sslErr = SSL_ERROR_WANT_X509_LOOKUP /\ w.ret = SSL_READ_WOULD_BLOCK

(* ---------------------- server handshake statuses ---------------------- *)
\* the read events that drove SSLAccept
DrivenAccepts == {w \in ReadOutcomes : Has(w, "SSLAccept")}

\* ssl_error: what SSLAccept answered
EngineAnswer(w) ==
  LET s == Only(w.log, HandshakeErrors) IN s[Len(s)]

\* the caller has rearmed the read side, the write side
ReadRearmed(w) ==
  /\ ~w.vc.read.triggered /\ ~w.nh.read_ready_list
  /\ w.log[Len(w.log)] = "readReschedule"

WriteRearmed(w) ==
  /\ ~w.vc.write.triggered /\ ~w.nh.write_ready_list
  /\ w.log[Len(w.log)] = "writeReschedule"

\* what C28 and its amendment have in common: want-read rearms the read,
\* want-write and want-connect rearm the write, want-x509-lookup gives
\* EVENT_CONT, zero-return, syscall and ssl-error give EVENT_ERROR, and the
\* coordinator marks the handshake complete on SSL_ERROR_NONE only
StatusesButAccept(w) ==
  LET e == EngineAnswer(w)
  IN /\ e = SSL_ERROR_WANT_READ => (w.ret = SSL_HANDSHAKE_WANT_READ /\ ReadRearmed(w))
     /\ e = SSL_ERROR_WANT_WRITE => (w.ret = SSL_HANDSHAKE_WANT_WRITE /\ WriteRearmed(w))
     /\ e = SSL_ERROR_WANT_CONNECT => (w.ret = SSL_HANDSHAKE_WANT_CONNECT /\ WriteRearmed(w))
     /\ e = SSL_ERROR_WANT_X509_LOOKUP => w.ret = EVENT_CONT
     /\ e \in {SSL_ERROR_ZERO_RETURN, SSL_ERROR_SYSCALL, SSL_ERROR_SSL} => w.ret = EVENT_ERROR
     /\ (w.vc.sslHandShakeComplete /\ ~vc.sslHandShakeComplete /\ ~Has(w, "copy"))
          => e = SSL_ERROR_NONE
     /\ e = SSL_ERROR_NONE => w.vc.sslHandShakeComplete

\* C28 as stated: want-accept gives want-read, like want-read
C28_WantAcceptIsWantRead ==
  \A w \in DrivenAccepts :
    /\ StatusesButAccept(w)
    /\ EngineAnswer(w) = SSL_ERROR_WANT_ACCEPT
         => (w.ret = SSL_HANDSHAKE_WANT_READ /\ ReadRearmed(w))

\* C28 amended: want-accept gives EVENT_CONT, like want-x509-lookup, and the
\* caller reschedules the read without touching read.triggered or the
\* ready list
C28_WantAcceptIsCont ==
  \A w \in DrivenAccepts :
    /\ StatusesButAccept(w)
    /\ EngineAnswer(w) \in {SSL_ERROR_WANT_ACCEPT, SSL_ERROR_WANT_X509_LOOKUP}
         => /\ w.ret = EVENT_CONT
            /\ w.log[Len(w.log)] = "readReschedule"
            /\ w.vc.read.triggered = vc.read.triggered
            /\ w.nh = nh

\* SSLAccept answers each of its codes from one state
C28_Witness ==
  /\ \A e \in HandshakeErrors \ {SSL_ERROR_WANT_SNI_RESOLVE} :
       \E w \in DrivenAccepts : EngineAnswer(w) = e
  /\ vc.read.triggered
  /\ \E w \in DrivenAccepts :
       EngineAnswer(w) = SSL_ERROR_WANT_ACCEPT /\ w.ret = EVENT_CONT /\ w.vc.read.triggered

(* --------------------------- terminate verdict ------------------------- *)
\* the read event ran the handshake step on a vc whose hooks had left the
\* terminate verdict, and left the pre-accept hooks done
Terminated(w) ==
  /\ vc.hookOpRequested = TS_SSL_HOOK_OP_TERMINATE
  /\ ~vc.sslHandShakeComplete
  /\ w.locked /\ w.ret # "none"
  /\ w.vc.sslPreAcceptHookState = SSL_HOOKS_DONE

\* C29: when the pre-accept hooks are done with a terminate verdict, the
\* handshake step marks the handshake complete and returns EVENT_DONE, the
\* vc holds no TLS session (none was created), it is still in TLS mode and
\* no SSLAccept was driven
C29_TerminateWithoutSession ==
  \A w \in ReadOutcomes :
    Terminated(w) =>
      /\ w.vc.sslHandShakeComplete
      /\ w.ret = EVENT_DONE
      /\ w.vc.attributes = TRANSPORT_SSL
      /\ ~Has(w, "SSLAccept")
      /\ ~w.vc.ssl

(* ------------------------- server step order --------------------------- *)
\* the chain of pre-accept hooks registered with ssl_hooks, in order
PreAcceptChain == [i \in 1..cfg.nPreAccept |-> i]

\* C30: on a server vc the pre-accept hooks are walked to done before the
\* certificate lookup chooses between the blind-tunnel escape and a session:
\* a vc that has a session, handshake buffers or is a tunnel has its
\* pre-accept hooks done and every registered hook dispatched, and none of
\* these exists while the pre-accept state is init, invoke or active
C30_HooksBeforeLookup ==
  (vc.allocated /\ ~vc.sslClientConnection)
    => /\ (vc.ssl \/ vc.handShakeReader # NULL \/ BlindTunnel(World))
            => (vc.sslPreAcceptHookState = SSL_HOOKS_DONE /\ plug.disp = PreAcceptChain)
       /\ vc.sslPreAcceptHookState \in {SSL_HOOKS_INIT, SSL_HOOKS_INVOKE, SSL_HOOKS_ACTIVE}
            => (~vc.ssl /\ vc.handShakeReader = NULL /\ vc.handShakeBuffer = <<>>)

(* ------------------------ client handshake success --------------------- *)
\* the read events in which the engine's connect succeeds
ConnectSucceeds(w) ==
  /\ vc.sslClientConnection /\ ~vc.sslHandShakeComplete
  /\ w.locked /\ w.vc.sslHandShakeComplete

\* C31: when the engine's connect succeeds on a vc whose write half is
\* enabled, the call reschedules the write on the net handler and sets
\* sslHandShakeComplete, whatever the debug configuration is
C31_SuccessReschedulesWrite ==
  \A w \in ReadOutcomes :
    (ConnectSucceeds(w) /\ vc.write.enabled) =>
      (Has(w, "writeReschedule") /\ w.vc.sslHandShakeComplete)

(* --------------------------- write counters ---------------------------- *)
\* the largest budget of the calls examined below
MaxBudget == 3

\* budgets and block layouts that let a second write be longer than a byte
BudgetInputs ==
  {[towrite |-> t, blocks |-> b, clock |-> c] :
     t \in 1..MaxBudget, b \in WriteLayouts \cup {<<1, 2>>, <<MaxBudget>>},
     c \in IF cfg.ssl_maxrecord = -1 THEN vc.sslLastWriteTime..MaxClock ELSE {0}}

\* the calls of load_buffer_and_write a write event makes on a vc that has
\* completed its handshake and is not a tunnel
RecordCalls ==
  IF vc.allocated /\ vc.sslHandShakeComplete /\ ~BlindTunnel(World)
  THEN BudgetInputs ELSE {}

\* the bytes the engine accepted over the writes of the call
Accepted(w) == SumSeq(w.taken)

\* now, as the call reads the clock
NowOf(i) == IF cfg.ssl_maxrecord = -1 THEN i.clock ELSE 0

\* sslTotalBytesSent once the call has made its idle reset
SentAtEntry(i) ==
  IF cfg.ssl_maxrecord = -1 /\ Idle(i.clock) THEN 0 ELSE vc.sslTotalBytesSent

\* C32: a call of load_buffer_and_write in which the engine accepted at
\* least one byte sets sslLastWriteTime to now and adds to sslTotalBytesSent
\* exactly the bytes the engine accepted in the call, also when a later
\* write of the call answers want-read, want-write or an error
C32_CountersFollowProgress ==
  \A i \in RecordCalls :
    \A w \in load_buffer_and_write(World, i.towrite, i.blocks, i.clock) :
      Accepted(w) > 0 =>
        /\ w.vc.sslLastWriteTime = NowOf(i)
        /\ w.vc.sslTotalBytesSent = SentAtEntry(i) + Accepted(w)

(* -------------------------- partial acceptance ------------------------- *)
\* write k of the call was accepted in part
Partial(w, k) == 0 < w.taken[k] /\ w.taken[k] < w.records[k]

\* C33: when a write of load_buffer_and_write is accepted in part, the first
\* of the call or a later one, it is the last write of the call, needs gets
\* EVENTIO_WRITE, and the value returned is the progress made (of that
\* write or of the call), not the amount attempted
C33_PartialStopsAndReports ==
  \A i \in RecordCalls :
    \A w \in load_buffer_and_write(World, i.towrite, i.blocks, i.clock) :
      \A k \in DOMAIN w.taken :
        Partial(w, k) =>
          /\ k = Len(w.taken)
          /\ "EVENTIO_WRITE" \in w.needs
          /\ w.r \in {w.taken[k], Accepted(w)}
          /\ w.r # w.total_written

(* ------------------------ record cap and budget ------------------------ *)
\* the readable bytes of the blocks that hold any, in chain order
Readable(blocks) == SelectSeq(blocks, LAMBDA n : n > 0)

\* C34: with ssl_maxrecord > 0 no write of load_buffer_and_write is longer
\* than ssl_maxrecord; with ssl_maxrecord = 0 the k-th write is the readable
\* region of the k-th block that holds bytes, cut at what is left of
\* towrite; under every setting the lengths given to the engine in one call
\* add up to at most towrite
C34_CapAndBudget ==
  \A i \in RecordCalls :
    \A w \in load_buffer_and_write(World, i.towrite, i.blocks, i.clock) :
      /\ cfg.ssl_maxrecord > 0 =>
           \A k \in DOMAIN w.records : w.records[k] <= cfg.ssl_maxrecord
      /\ cfg.ssl_maxrecord = 0 =>
           /\ Len(w.records) <= Len(Readable(i.blocks))
           /\ \A k \in DOMAIN w.records :
                w.records[k] = Min(Readable(i.blocks)[k],
                                   i.towrite - SumSeq(SubSeq(w.records, 1, k - 1)))
      /\ SumSeq(w.records) <= i.towrite
      /\ \A k \in DOMAIN w.records : w.records[k] > 0

\* a cap of one byte cuts a block of three bytes into writes of one byte
\* until the budget of two is used up
C34_Witness ==
  /\ cfg.ssl_maxrecord = 1
  /\ \E i \in RecordCalls :
       /\ i.blocks = <<MaxBudget>> /\ i.towrite = 2
       /\ \E w \in load_buffer_and_write(World, i.towrite, i.blocks, i.clock) :
            w.records = <<1, 1>> /\ w.taken = <<1, 1>>

(* ----------------------- value of the write call ----------------------- *)
\* C38: a positive value returned by load_buffer_and_write is the number of
\* bytes the engine accepted over the writes of the call, and the value is
\* positive whenever the engine accepted a byte in the call
C38_ReturnIsAccepted ==
  \A i \in RecordCalls :
    \A w \in load_buffer_and_write(World, i.towrite, i.blocks, i.clock) :
      /\ w.r > 0 => w.r = Accepted(w)
      /\ Accepted(w) > 0 => w.r > 0

(* ------------------------- flow-control results ------------------------ *)
\* the read events that ran a handshake step
HandShakeSteps ==
  IF vc.allocated /\ HandShakeIncomplete(World) /\ ~BlindTunnel(World)
        /\ ~vc.sslClientRenegotiationAbort /\ vc.read.enabled
  THEN {w \in ReadOutcomes : w.locked} ELSE {}

\* the flow-control values of a handshake step
FlowControl ==
  {SSL_HANDSHAKE_WANT_READ, SSL_HANDSHAKE_WANT_ACCEPT, SSL_HANDSHAKE_WANT_WRITE,
   SSL_HANDSHAKE_WANT_CONNECT, SSL_WAIT_FOR_HOOK}

OnlyReenableReschedules(w) ==
  /\ ~Has(w, "writeReschedule")
  /\ \A k \in DOMAIN w.log :
       w.log[k] = "readReschedule" => (k < Len(w.log) /\ w.log[k + 1] = "reenable")

DecryptingReads ==
  IF vc.allocated /\ vc.sslHandShakeComplete /\ ~BlindTunnel(World)
        /\ ~vc.sslClientRenegotiationAbort /\ vc.read.enabled
        /\ vc.read.vio.nbytes - vc.read.vio.ndone > 0
        /\ SumSeq(vc.read.vio.blocks) > 0
  THEN {w \in ReadOutcomes : w.locked} ELSE {}

\* C40: the do-while around ssl_read_from_net ends in every read event that
\* passes the entry check, whatever the engine answers and however the room
\* is spread over the blocks: ssl_read_from_net runs once, and what it
\* returns is neither SSL_READ_ERROR_NONE nor SSL_READ_READY without bytes
C40_DecryptLoopEnds ==
  \A w \in DecryptingReads :
    /\ Count(w.log, "ssl_read_from_net") = 1
    /\ w.ret # SSL_READ_ERROR_NONE
    /\ w.ret = SSL_READ_READY => w.bytes_read > 0

\* a read event on two blocks of one byte with two bytes demanded, in which
\* the engine fills the first block and then would block: SSL_READ_READY
\* with one byte, the result that is closest to another turn of the loop
C40_Witness ==
  /\ vc.read.vio.blocks = <<1, 1>>
  /\ \E w \in DecryptingReads :
       /\ w.ret = SSL_READ_READY /\ w.bytes_read = 1
       /\ Count(w.log, "SSLReadBuffer") = 2
       /\ Count(w.log, "ssl_read_from_net") = 1

(* ------------------------- replay bytes, once -------------------------- *)
\* C39: every memory BIO that read_raw_data or the post-handshake branch of
\* net_read_io puts under the engine starts at a byte of the handshake
\* buffer the engine has not read: no byte is given to the engine twice
C39_NoByteTwice ==
  \A w \in ReadOutcomes :
    \A k \in DOMAIN w.binds : w.binds[k].start >= w.binds[k].seen

(* ----------------------- draining the replay buffer -------------------- *)
\* the handshake is complete and the handshake buffer holds bytes
Undrained ==
  /\ vc.allocated /\ vc.sslHandShakeComplete /\ ~BlindTunnel(World)
  /\ vc.handShakeReader # NULL /\ ReaderAvail(World) > 0

\* the handshake buffer is released and the engine reads the socket
Drained == vc.handShakeReader = NULL /\ vc.rbio.kind = "fd"

\* a read event still gets to the decrypt loop
CanRead ==
  /\ vc.read.enabled /\ ~vc.sslClientRenegotiationAbort
  /\ vc.read.vio.nbytes - vc.read.vio.ndone > 0 /\ SumSeq(vc.read.vio.blocks) > 0

\* the engine's input goes to the socket only from a state in which the
\* handshake buffer holds no byte
SwitchOnlyWhenEmpty ==
  [][(vc.allocated /\ vc.rbio.kind = "mem" /\ vc'.rbio.kind = "fd")
       => ReaderAvail(World) <= 0]_vars

\* C36: when the handshake completes with bytes left in the handshake
\* buffer, read events in which the engine reads its input lead to the
\* buffer being empty and released and the engine reading the socket (as
\* long as the vc lives and read events reach the decrypt loop); and the
\* engine's input never goes to the socket while bytes are left
C36_ReplayDrains ==
  /\ SwitchOnlyWhenEmpty
  /\ Undrained ~> (Drained \/ ~vc.allocated \/ ~CanRead)

(* ------------------------ replay reconciliation ------------------------ *)
\* the server handshake steps that end with the handshake buffer attached
\* and the vc not a tunnel: those that reach the consume
ReconciledSteps ==
  {w \in HandShakeSteps :
     ~vc.sslClientConnection /\ w.vc.handShakeReader # NULL /\ ~BlindTunnel(w)}

\* where the reader stands when the step begins
ReaderAtEntry == IF vc.handShakeReader = NULL THEN 0 ELSE vc.handShakeReader

\* C35: a server handshake step consumes from handShakeReader as many bytes
\* as the engine read from its memory BIO in the step, whether the buffer is
\* one block or a chain; what the reader still sees are the bytes the engine
\* has not read, in order
C35_ConsumedIsRead ==
  \A w \in ReconciledSteps :
    /\ w.vc.handShakeReader - ReaderAtEntry = w.eaten
    /\ ReaderBytes(w, w.vc.handShakeReader)
         = SubSeq(w.vc.handShakeBuffer, ReaderAtEntry + w.eaten + 1,
                  Len(w.vc.handShakeBuffer))

====
